---------------------------- MODULE Spec2Model ----------------------------
(***************************************************************************)
(* Model of the defi-dashboard data pipeline:                              *)
(*   - the /api/pools route handler (pool list -> allow-list filter ->     *)
(*     categorisation -> concurrent per-pool history -> 30-day mean),      *)
(*   - the pool-details page's processing of an APY history (sanitising,   *)
(*     30-day mean, monthly resampling).                                   *)
(* Instants are JavaScript Date values, kept as [s, ms]: whole seconds     *)
(* since the Unix epoch and the millisecond remainder, so that             *)
(* Math.floor(getTime() / 1000) is a real truncation.  Local time is taken *)
(* to be UTC.  Strings that the code inspects character by character       *)
(* (project names) are sequences of one-character strings.                 *)
(***************************************************************************)
EXTENDS Integers, Sequences, FiniteSets, TLC

Null == "null"

(***************************************************************************)
(* JavaScript strings and String.prototype.toLowerCase (ASCII range).      *)
(***************************************************************************)
UpperAlphabet ==
    << "A", "B", "C", "D", "E", "F", "G", "H", "I", "J", "K", "L", "M",
       "N", "O", "P", "Q", "R", "S", "T", "U", "V", "W", "X", "Y", "Z" >>

LowerAlphabet ==
    << "a", "b", "c", "d", "e", "f", "g", "h", "i", "j", "k", "l", "m",
       "n", "o", "p", "q", "r", "s", "t", "u", "v", "w", "x", "y", "z" >>

LowerChar(c) ==
    IF \E i \in 1..Len(UpperAlphabet) : UpperAlphabet[i] = c
    THEN LowerAlphabet[CHOOSE i \in 1..Len(UpperAlphabet) : UpperAlphabet[i] = c]
    ELSE c

toLowerCase(str) == [i \in 1..Len(str) |-> LowerChar(str[i])]

\* The project identifiers the route compares against, as character sequences.
StrAaveV3 == << "a", "a", "v", "e", "-", "v", "3" >>
StrCompoundV3 == << "c", "o", "m", "p", "o", "u", "n", "d", "-", "v", "3" >>
StrMaple == << "m", "a", "p", "l", "e" >>
StrLido == << "l", "i", "d", "o" >>
StrBinanceStakedEth ==
    << "b", "i", "n", "a", "n", "c", "e", "-", "s", "t", "a", "k", "e", "d",
       "-", "e", "t", "h" >>
StrStader == << "s", "t", "a", "d", "e", "r" >>

(***************************************************************************)
(* Calendar arithmetic of the JavaScript Date object and of date-fns       *)
(* (subMonths, startOfMonth, format), proleptic Gregorian, local = UTC.    *)
(***************************************************************************)
SecondsPerDay == 24 * 60 * 60

Instant(sec, msec) == [s |-> sec, ms |-> msec]

\* a >= b on Date values (valueOf() in milliseconds)
InstantGeq(a, b) == a.s > b.s \/ (a.s = b.s /\ a.ms >= b.ms)

\* Math.floor(date.getTime() / 1000)
EpochSeconds(t) == t.s

\* new Date(seconds * 1000)
FromEpochSeconds(sec) == Instant(sec, 0)

IsLeapYear(y) == (y % 4 = 0 /\ y % 100 # 0) \/ y % 400 = 0

DaysInMonth(y, m) ==
    IF m = 2 THEN (IF IsLeapYear(y) THEN 29 ELSE 28)
    ELSE IF m \in {4, 6, 9, 11} THEN 30 ELSE 31

\* Days since 1970-01-01 of the civil date y-m-d.
DaysFromCivil(y, m, d) ==
    LET yy == IF m <= 2 THEN y - 1 ELSE y
        era == yy \div 400
        yoe == yy - era * 400
        mp == IF m > 2 THEN m - 3 ELSE m + 9
        doy == (153 * mp + 2) \div 5 + d - 1
        doe == yoe * 365 + yoe \div 4 - yoe \div 100 + doy
    IN  era * 146097 + doe - 719468

\* The civil date [y, m, d] of a day number since 1970-01-01.
CivilFromDays(z) ==
    LET zz == z + 719468
        era == zz \div 146097
        doe == zz - era * 146097
        yoe == (doe - doe \div 1460 + doe \div 36524 - doe \div 146096) \div 365
        doy == doe - (365 * yoe + yoe \div 4 - yoe \div 100)
        mp == (5 * doy + 2) \div 153
        dd == doy - (153 * mp + 2) \div 5 + 1
        mm == IF mp < 10 THEN mp + 3 ELSE mp - 9
    IN  [y |-> yoe + era * 400 + (IF mm <= 2 THEN 1 ELSE 0), m |-> mm, d |-> dd]

\* getFullYear / getMonth+1 / getDate of a Date
CivilOf(t) == CivilFromDays(t.s \div SecondsPerDay)

\* The instant of a civil date at a time of day.
InstantOf(y, m, d, secOfDay, msec) ==
    Instant(DaysFromCivil(y, m, d) * SecondsPerDay + secOfDay, msec)

\* date-fns addMonths(date, -amount): same day of month, clamped to the length
\* of the target month; the time of day is kept.
subMonths(t, amount) ==
    LET c == CivilOf(t)
        idx == c.y * 12 + (c.m - 1) - amount
        ty == idx \div 12
        tm == (idx % 12) + 1
        dim == DaysInMonth(ty, tm)
        td == IF c.d >= dim THEN dim ELSE c.d
    IN  InstantOf(ty, tm, td, t.s % SecondsPerDay, t.ms)

\* date-fns startOfMonth: day 1, 00:00:00.000
startOfMonth(t) ==
    LET c == CivilOf(t) IN InstantOf(c.y, c.m, 1, 0, 0)

MonthNames ==
    << "Jan", "Feb", "Mar", "Apr", "May", "Jun",
       "Jul", "Aug", "Sep", "Oct", "Nov", "Dec" >>

\* date-fns format(date, "MMM yyyy"), the label as <<month name, year>>
formatMMMyyyy(t) ==
    LET c == CivilOf(t) IN << MonthNames[c.m], c.y >>

(***************************************************************************)
(* JavaScript values as they arrive in a parsed JSON body.  Every value is *)
(* a record of one shape, so that values of different kinds compare.       *)
(***************************************************************************)
JsNum(n) == [k |-> "num", v |-> n]
JsNull == [k |-> "null", v |-> 0]
JsUndefined == [k |-> "undefined", v |-> 0]
JsInfinity == [k |-> "inf", v |-> 0]
JsNaN == [k |-> "nan", v |-> 0]

\* a + b of two JavaScript values, a being a number (the accumulator of a
\* reduce): ToNumber(null) = 0, ToNumber(undefined) = NaN.
JsAdd(a, b) ==
    IF a.k = "nan" \/ b.k \in {"nan", "undefined"} THEN JsNaN
    ELSE IF a.k = "inf" \/ b.k = "inf" THEN JsInfinity
    ELSE IF b.k = "null" THEN a
    ELSE JsNum(a.v + b.v)

\* A quotient sum / count is kept exact, as the pair (num, den).
Quotient(k, num, den) == [k |-> k, num |-> num, den |-> den]
NoData == Quotient("null", 0, 1)

\* a / n for a JavaScript number a and a count n > 0
JsDiv(a, n) ==
    IF a.k = "num" THEN Quotient("num", a.v, n) ELSE Quotient(a.k, 0, 1)

\* 0 / 0
JsZeroByZero == Quotient("nan", 0, 1)

\* JSON.stringify of a number, as NextResponse.json does: NaN and Infinity
\* are written as null.
JsonNumber(q) == IF q.k \in {"nan", "inf"} THEN NoData ELSE q

\* A timestamp field of a sample: an ISO date string (kept as the instant it
\* parses to) or absent.
TsDate(t) == [k |-> "date", s |-> t.s, ms |-> t.ms]
TsAbsent == [k |-> "absent", s |-> 0, ms |-> 0]

Sample(ts, apy) == [timestamp |-> ts, apy |-> apy]

\* Array.prototype.reduce((sum, entry) => sum + entry.apy, 0)
RECURSIVE SumApy(_, _)
SumApy(acc, entries) ==
    IF entries = << >> THEN acc
    ELSE SumApy(JsAdd(acc, Head(entries).apy), Tail(entries))

(***************************************************************************)
(* /api/pools: constants and pure steps of the route handler.              *)
(***************************************************************************)
IdAaveV3 == "db678df9-3281-4bc2-a8bb-01160ffd6d48"
IdCompoundV3 == "c1ca08e4-d618-415e-ad63-fcec58705469"
IdMaple == "8edfdf02-cdbb-43f7-bca6-954e5fe56813"
IdLido == "747c1d2a-c668-4682-b9f9-296708a3dd90"
IdBinanceStakedEth == "80b8bf92-b953-4c20-98ea-c9653ef2bb98"
IdStader == "90bfb3c2-5d35-4959-a275-ba5085b08aa3"
IdCianYieldLayer == "107fb915-ab29-475b-b526-d0ed0d3e6110"
IdYearnFinance == "05a3d186-2d42-4e21-b1f0-68c079d22677"
IdBeefy == "1977885c-d5ae-4c9e-b4df-863b7e1578e6"

targetPoolIds ==
    << IdAaveV3, IdCompoundV3, IdMaple, IdLido, IdBinanceStakedEth, IdStader,
       IdCianYieldLayer, IdYearnFinance, IdBeefy >>

\* targetPoolIds.includes(id)
Includes(list, id) == \E i \in 1..Len(list) : list[i] = id

\* The category expression of the route: three-way test on the lower-cased
\* project name.
CategoryCaseSensitive(project) ==
    IF project = StrAaveV3 \/ project = StrCompoundV3 \/ project = StrMaple
    THEN "Lending"
    ELSE IF \/ project = StrLido
            \/ project = StrBinanceStakedEth
            \/ project = StrStader
         THEN "Liquid Staking"
         ELSE "Yield Aggregator"

Category(project) ==
    IF \/ toLowerCase(project) = StrAaveV3
       \/ toLowerCase(project) = StrCompoundV3
       \/ toLowerCase(project) = StrMaple
    THEN "Lending"
    ELSE IF \/ toLowerCase(project) = StrLido
            \/ toLowerCase(project) = StrBinanceStakedEth
            \/ toLowerCase(project) = StrStader
         THEN "Liquid Staking"
         ELSE "Yield Aggregator"

\* a ?? b
Coalesce(a, b) == IF a = JsNull \/ a = JsUndefined THEN b ELSE a

\* One upstream listing entry mapped to the Pool interface.
ToPool(entry) ==
    [ pool |-> entry.pool,
      chain |-> entry.chain,
      project |-> entry.project,
      symbol |-> IF entry.symbol = Null THEN "Unknown" ELSE entry.symbol,
      tvlUsd |-> Coalesce(entry.tvlUsd, JsNum(0)),
      apy |-> Coalesce(entry.apy, JsNum(0)),
      apyMean30d |-> NoData,
      category |-> Category(entry.project) ]

\* poolsData.data.filter(...) without the allow-list test
KeepAllPools(data) == data

\* poolsData.data.filter((pool) => targetPoolIds.includes(pool.pool))
FilterTargetPools(data) ==
    LET Keep(entry) == Includes(targetPoolIds, entry.pool)
    IN  SelectSeq(data, Keep)

\* filteredPools: filter, then map
FilteredPools(data) ==
    LET kept == FilterTargetPools(data)
    IN  [i \in 1..Len(kept) |-> ToPool(kept[i])]

ThirtyDaysSeconds == 30 * 24 * 60 * 60

\* new Date(Date.now() - 30 * 24 * 60 * 60 * 1000)
RouteThirtyDaysAgo(now) == Instant(now.s - ThirtyDaysSeconds, now.ms)

\* new Date(entry.timestamp) >= thirtyDaysAgo; an absent timestamp gives an
\* Invalid Date (or the epoch, for null), which is never >= thirtyDaysAgo.
RouteIsRecent(entry, now) ==
    /\ entry.timestamp.k = "date"
    /\ InstantGeq(entry.timestamp, RouteThirtyDaysAgo(now))

RouteRecentData(data, now) ==
    LET Recent(entry) == RouteIsRecent(entry, now)
    IN  SelectSeq(data, Recent)

\* The route's mean without the length test: 0 / 0 for an empty window.
RouteApyMean30dUnguarded(data, now) ==
    IF Len(RouteRecentData(data, now)) > 0
    THEN JsDiv(SumApy(JsNum(0), RouteRecentData(data, now)),
               Len(RouteRecentData(data, now)))
    ELSE JsZeroByZero

\* apyMean30d of the route: mean of apy over recentData, or null.
RouteApyMean30d(data, now) ==
    IF Len(RouteRecentData(data, now)) > 0
    THEN JsDiv(SumApy(JsNum(0), RouteRecentData(data, now)),
               Len(RouteRecentData(data, now)))
    ELSE NoData

(***************************************************************************)
(* Pool-details page: processing of the APY history inside fetchData.      *)
(***************************************************************************)
NoMonth == << "", 0 >>

ApyDataPoint(ts, apy, month) == [timestamp |-> ts, apy |-> apy, month |-> month]

\* !!item?.timestamp && item.apy != null && !isNaN(item.apy)
PageIsValid(item) ==
    /\ item.timestamp.k = "date"
    /\ item.apy.k \notin {"null", "undefined"}
    /\ item.apy.k # "nan"

\* { timestamp: Math.floor(new Date(item.timestamp).getTime() / 1000),
\*   apy: Number(item.apy), month: "" }
ToApyDataPoint(item) ==
    ApyDataPoint(EpochSeconds(Instant(item.timestamp.s, item.timestamp.ms)),
                 item.apy, NoMonth)

\* Array.prototype.sort((a, b) => a.timestamp - b.timestamp): stable, ascending
RECURSIVE InsertByTimestamp(_, _)
InsertByTimestamp(sorted, point) ==
    IF sorted = << >> THEN << point >>
    ELSE IF Head(sorted).timestamp <= point.timestamp
         THEN << Head(sorted) >> \o InsertByTimestamp(Tail(sorted), point)
         ELSE << point >> \o sorted

RECURSIVE SortFrom(_, _)
SortFrom(sorted, rest) ==
    IF rest = << >> THEN sorted
    ELSE SortFrom(InsertByTimestamp(sorted, Head(rest)), Tail(rest))

\* the points left in arrival order
Unsorted(points) == points

SortByTimestamp(points) == SortFrom(<< >>, points)

\* apyData: (apyResult.data || []).filter(...).map(...).sort(...)
PageApyData(body) ==
    LET items == IF body.hasData THEN body.data ELSE << >>
        valid == SelectSeq(items, PageIsValid)
    IN  SortByTimestamp([i \in 1..Len(valid) |-> ToApyDataPoint(valid[i])])

\* Math.floor(subMonths(new Date(), 1).getTime() / 1000)
PageThirtyDaysAgo(now) == EpochSeconds(subMonths(now, 1))

PageRecentApyData(points, now) ==
    LET Recent(point) == point.timestamp >= PageThirtyDaysAgo(now)
    IN  SelectSeq(points, Recent)

\* apyMean30d of the page: mean of apy over recentApyData, or null.
PageApyMean30d(points, now) ==
    IF Len(PageRecentApyData(points, now)) > 0
    THEN JsDiv(SumApy(JsNum(0), PageRecentApyData(points, now)),
               Len(PageRecentApyData(points, now)))
    ELSE NoData

ThreeDaysInSeconds == 3 * 24 * 60 * 60

Abs(n) == IF n < 0 THEN -n ELSE n

\* startOfMonth(subMonths(today, i)), in epoch seconds
FirstOfMonthTimestamp(today, i) ==
    EpochSeconds(startOfMonth(subMonths(today, i)))

\* Math.floor(twelveMonthsAgo.getTime() / 1000), twelveMonthsAgo = subMonths(today, 12)
TwelveMonthsAgoTimestamp(today) == EpochSeconds(subMonths(today, 12))

\* the predicate without its tolerance test
IsInWindowOnly(point, firstOfMonthTimestamp, windowStart) ==
    point.timestamp >= windowStart

\* the predicate of apyData.find in the monthly loop
IsClosestCandidate(point, firstOfMonthTimestamp, windowStart) ==
    /\ Abs(point.timestamp - firstOfMonthTimestamp) <= ThreeDaysInSeconds
    /\ point.timestamp >= windowStart

\* Array.prototype.find: index of the first element that satisfies the
\* predicate, 0 for undefined
RECURSIVE FindFrom(_, _, _, _)
FindFrom(points, j, firstOfMonthTimestamp, windowStart) ==
    IF j > Len(points) THEN 0
    ELSE IF IsClosestCandidate(points[j], firstOfMonthTimestamp, windowStart)
         THEN j
         ELSE FindFrom(points, j + 1, firstOfMonthTimestamp, windowStart)

FindClosestPoint(points, firstOfMonthTimestamp, windowStart) ==
    FindFrom(points, 1, firstOfMonthTimestamp, windowStart)

\* the loop for (let i = 11; i >= 0; i--), from iteration i on
RECURSIVE MonthlyLoop(_, _, _, _, _)
MonthlyLoop(points, today, windowStart, i, monthlyApy) ==
    IF i < 0 THEN monthlyApy
    ELSE LET j == FindClosestPoint(points, FirstOfMonthTimestamp(today, i),
                                   windowStart)
         IN  MonthlyLoop(points, today, windowStart, i - 1,
                IF j # 0
                THEN Append(monthlyApy,
                        [points[j] EXCEPT !.month =
                            formatMMMyyyy(FromEpochSeconds(points[j].timestamp))])
                ELSE monthlyApy)

\* monthlyApy: one pass over the 12 target months, oldest first
MonthlyApy(points, today) ==
    MonthlyLoop(points, today, TwelveMonthsAgoTimestamp(today), 11, << >>)

(***************************************************************************)
(* Bounds and the inputs drawn within them.                                *)
(***************************************************************************)
\* Longest upstream pool list.
MaxPools == 2


UpstreamEntry(id, project, symbol, tvlUsd, apy) ==
    [ pool |-> id, chain |-> "Ethereum", project |-> project,
      symbol |-> symbol, tvlUsd |-> tvlUsd, apy |-> apy ]

\* Entries of the upstream pool list: allow-listed and other identifiers,
\* projects in several spellings, absent symbol / tvlUsd / apy.
UpstreamEntries ==
    { UpstreamEntry(IdAaveV3, << "A", "a", "v", "e", "-", "V", "3" >>, "WETH", JsNum(900), JsNum(2)),
      UpstreamEntry(IdCompoundV3, << "C", "o", "m", "p", "o", "u", "n", "d", "-", "V", "3" >>, Null, JsNull, JsNum(3)),
      UpstreamEntry(IdLido, << "L", "I", "D", "O" >>, "STETH", JsNum(700), JsNull),
      UpstreamEntry(IdStader, << "S", "t", "a", "d", "e", "r" >>, "ETHX", JsNum(50), JsNum(3)),
      UpstreamEntry(IdMaple, << "m", "a", "p", "l", "e", "-", "f", "i" >>, "USDC", JsNum(40), JsNum(9)),
      UpstreamEntry(IdCianYieldLayer, StrMaple, "SYRUP", JsNum(30), JsNum(8)),
      UpstreamEntry("00000000-0000-4000-8000-000000000001", StrAaveV3,
                    "DAI", JsNum(5), JsNum(1)),
      UpstreamEntry("00000000-0000-4000-8000-000000000002", << "Y", "E", "A", "R", "N" >>,
                    "YFI", JsNum(6), JsNum(4)) }

UpstreamLists == UNION { [1..n -> UpstreamEntries] : n \in 0..MaxPools }

\* Readings of Date.now() in the route.
RouteNows == { InstantOf(2024, 8, 15, 36000, 700) }

DaysBefore(t, days, msec) == Instant(t.s - days * SecondsPerDay, msec)

\* Parsed bodies of the history endpoint, relative to the clock reading:
\* no data field, an empty series, samples inside and outside the window,
\* a sample with a null apy.
HistoryBodies(t) ==
    { [hasData |-> FALSE, data |-> << >>],
      [hasData |-> TRUE, data |-> << >>],
      [hasData |-> TRUE,
       data |-> << Sample(TsDate(DaysBefore(t, 31, t.ms)), JsNum(4)) >>],
      [hasData |-> TRUE,
       data |-> << Sample(TsDate(DaysBefore(t, 31, t.ms)), JsNum(2)),
                   Sample(TsDate(DaysBefore(t, 30, t.ms)), JsNum(4)),
                   Sample(TsDate(DaysBefore(t, 2, 0)), JsNum(9)) >>],
      [hasData |-> TRUE,
       data |-> << Sample(TsDate(DaysBefore(t, 1, 0)), JsNull),
                   Sample(TsDate(DaysBefore(t, 2, 0)), JsNum(4)) >>] }

(***************************************************************************)
(* Inputs of the history processing: clock readings and history bodies.    *)
(***************************************************************************)
\* Longest history series.
MaxSamples == 2

\* Clock readings for the 30-day mean: the month before has 31 days, is a
\* 28-day February, has 30 days.
AverageNows ==
    { InstantOf(2024, 8, 15, 36000, 700),
      InstantOf(2023, 3, 15, 0, 0),
      InstantOf(2024, 5, 15, 86399, 999) }

\* Clock readings for the monthly series: mid-month, and on a day of month
\* past the end of the oldest target month's predecessor.
MonthlyNows ==
    { InstantOf(2024, 8, 15, 36000, 700),
      InstantOf(2024, 3, 31, 36000, 700) }

PageNows == AverageNows \cup MonthlyNows

\* apy fields: numbers, null, Infinity (1e999), a value that is not a number
ApyValues == { JsNum(2), JsNum(4), JsNull, JsInfinity, JsNaN }

\* Timestamps around the 30-day boundary of a clock reading.
AverageStamps(t) ==
    { TsDate(DaysBefore(t, d, t.ms)) : d \in {1, 30, 31} }
        \cup { TsDate(DaysBefore(t, 30, 0)), TsAbsent }

AverageSamples(t) ==
    { Sample(ts, apy) : ts \in AverageStamps(t), apy \in ApyValues }

\* Timestamps around the first of the current and of the previous month, at
\* the edges of the tolerance, and around the start of the 12-month window.
MonthlyStamps(t) ==
    { TsDate(Instant(FirstOfMonthTimestamp(t, i) + d, 0)) :
        i \in {0, 1}, d \in { -ThreeDaysInSeconds, 0, 2 * SecondsPerDay } }
        \cup { TsDate(Instant(FirstOfMonthTimestamp(t, 0) - ThreeDaysInSeconds - 1, 0)),
               TsDate(Instant(FirstOfMonthTimestamp(t, 0) + ThreeDaysInSeconds, 500)),
               TsDate(Instant(FirstOfMonthTimestamp(t, 0) + SecondsPerDay \div 2, 0)),
               TsDate(Instant(FirstOfMonthTimestamp(t, 11) - ThreeDaysInSeconds, 0)),
               TsDate(Instant(TwelveMonthsAgoTimestamp(t), 0)) }

MonthlySamples(t) ==
    { Sample(ts, apy) : ts \in MonthlyStamps(t), apy \in {JsNum(2), JsNum(4)} }

SeriesOver(samples) == UNION { [1..n -> samples] : n \in 0..MaxSamples }

HistoryInputs(t) ==
    { [hasData |-> FALSE, data |-> << >>] }
        \cup { [hasData |-> TRUE, data |-> d] :
                 d \in (IF t \in AverageNows
                        THEN SeriesOver(AverageSamples(t)) ELSE { })
                       \cup (IF t \in MonthlyNows
                             THEN SeriesOver(MonthlySamples(t)) ELSE { }) }

(***************************************************************************)
(* State.                                                                  *)
(***************************************************************************)
VARIABLES
    \* the /api/pools handler
    pc,             \* "start", "awaitPools", "awaitPoolsJson", "awaitAll", "done"
    poolsFetch,     \* how the pool-list request settled
    poolsData,      \* what poolsResponse.json() produced
    filteredPools,  \* the allow-listed pools, mapped to the Pool interface
    taskPc,         \* per history task: "fetching", "parsing", "settled"
    hist,           \* per history task: what its request produced
    results,        \* per history task: the record it returned
    poolsRequests,  \* number of pool-list requests issued
    histRequests,   \* pool identifiers of the history requests issued, in order
    response        \* the handler's response

routeVars ==
    << pc, poolsFetch, poolsData, filteredPools, taskPc, hist, results,
       poolsRequests, histRequests, response >>

VARIABLES
    \* the history processing of the route and of the pool-details page
    now,            \* the clock reading, new Date()
    rawBody,        \* the parsed history body
    pageStep,       \* "fetched", "processed", "averaged", "resampled"
    apyData,        \* the page's sanitised, sorted series
    routeMean,      \* the route's apyMean30d for rawBody
    pageMean,       \* the page's apyMean30d for rawBody
    monthlyApy      \* the page's monthly series

pageVars == << now, rawBody, pageStep, apyData, routeMean, pageMean, monthlyApy >>

VARIABLES
    \* the /api/apy/[poolId] handler
    apyPc,          \* "idle", "start", "awaitFetch", "awaitJson", "done"
    apyPoolId,      \* params.poolId
    apyFetch,       \* how the upstream request settled
    apyBody,        \* what response.json() produced
    apyRequests,    \* pool identifiers of the upstream requests issued
    apyResponse     \* the handler's response

apyVars == << apyPc, apyPoolId, apyFetch, apyBody, apyRequests, apyResponse >>

VARIABLES
    \* the wallet context (WalletProvider with connectionPromise)
    walletMounted,      \* the provider component is mounted
    ethereum,           \* window.ethereum: present, isMetaMask
    isWalletConnected,  \* React state
    account,            \* React state
    isConnecting,       \* React state
    connectionPromise,  \* React state: the stored attempt, NoPromise for null
    attempts,           \* every attempt started: its connectPromise, its alerts
    calls,              \* per connectWallet call: the promise it returned
    checkPc             \* the mount-time checkConnection

walletVars ==
    << walletMounted, ethereum, isWalletConnected, account, isConnecting,
       connectionPromise, attempts, calls, checkPc >>

VARIABLES
    \* the pools table (DeFiPoolsTable)
    tablePc,        \* fetchPools: "idle", "awaitFetch", "awaitJson", "done"
    tablePools,     \* React state pools
    tableLoading,   \* React state isLoading
    tableError,     \* React state error
    tableResult     \* what response.json() of /api/pools produced

tableVars == << tablePc, tablePools, tableLoading, tableError, tableResult >>

VARIABLES
    \* the pool-details page (PoolDetails)
    detailsPoolId,  \* params.poolId of the current render
    detailsPool,    \* React state pool
    apyHistory,     \* React state apyHistory
    detailsLoading, \* React state isLoading
    detailsError,   \* React state error
    runs            \* every fetchData run started: its poolId, position, results

detailsVars ==
    << detailsPoolId, detailsPool, apyHistory, detailsLoading, detailsError, runs >>

VARIABLES
    \* the dashboard shell and its sidebar (DashboardShell, Sidebar)
    shellPc,        \* "idle", "rendered" (mount effect pending), "mounted"
    sidebarWidth,   \* React state
    collapsed,      \* React state
    isLg,           \* React state
    savedWidth,     \* localStorage "__sidebar_width__"
    savedCollapsed, \* localStorage "__sidebar_collapsed__"
    mediaMatches,   \* matchMedia("(min-width: 1024px)").matches
    drag            \* the resize drag in progress: startWidth, or inactive

shellVars ==
    << shellPc, sidebarWidth, collapsed, isLg, savedWidth, savedCollapsed,
       mediaMatches, drag >>

uiVars == << tableVars, detailsVars, shellVars >>

vars == << routeVars, pageVars, apyVars, walletVars, uiVars >>

NoResponse == [status |-> 0, error |-> Null, hasData |-> FALSE, data |-> << >>]

ErrorResponse(status, message) ==
    [status |-> status, error |-> message, hasData |-> FALSE, data |-> << >>]

\* NextResponse.json({ data }, { status: 200 }): numbers pass JSON.stringify.
DataResponse(pools) ==
    [ status |-> 200, error |-> Null, hasData |-> TRUE,
      data |-> [i \in 1..Len(pools) |->
                  [pools[i] EXCEPT !.apyMean30d = JsonNumber(@)]] ]

PoolsOutcome(k, hasData, data) == [k |-> k, hasData |-> hasData, data |-> data]

HistOutcome(k, body, t) ==
    [k |-> k, hasData |-> body.hasData, data |-> body.data, now |-> t]

NoBody == [hasData |-> FALSE, data |-> << >>]

DefaultNow == Instant(0, 0)

RouteInit ==
    /\ pc = "start"
    /\ poolsFetch = "pending"
    /\ poolsData = PoolsOutcome("pending", FALSE, << >>)
    /\ filteredPools = << >>
    /\ taskPc = << >>
    /\ hist = << >>
    /\ results = << >>
    /\ poolsRequests = 0
    /\ histRequests = << >>
    /\ response = NoResponse

(***************************************************************************)
(* The /api/pools handler, one action per await point.                     *)
(***************************************************************************)
\* GET is invoked: the pool list is requested.
Invoke ==
    /\ pc = "start"
    /\ pc' = "awaitPools"
    /\ poolsRequests' = poolsRequests + 1
    /\ UNCHANGED << poolsFetch, poolsData, filteredPools, taskPc, hist,
                    results, histRequests, response >>
    /\ UNCHANGED << pageVars, apyVars, walletVars, uiVars >>

\* The outer catch: the fixed 500 payload.
RespondError ==
    /\ pc' = "done"
    /\ response' = ErrorResponse(500, "Failed to fetch pool data")

\* The pool-list fetch without the test of poolsResponse.ok.
PoolsFetchSettlesUnchecked(o) ==
    /\ pc = "awaitPools"
    /\ poolsFetch' = o
    /\ IF o = "reject"
       THEN RespondError
       ELSE pc' = "awaitPoolsJson" /\ UNCHANGED response
    /\ UNCHANGED << poolsData, filteredPools, taskPc, hist, results,
                    poolsRequests, histRequests >>
    /\ UNCHANGED << pageVars, apyVars, walletVars, uiVars >>

\* await fetch(".../pools") settles: a rejection, or a response whose ok flag
\* is tested.
PoolsFetchSettles(o) ==
    /\ pc = "awaitPools"
    /\ poolsFetch' = o
    /\ IF o \in {"reject", "notOk"}
       THEN RespondError
       ELSE pc' = "awaitPoolsJson" /\ UNCHANGED response
    /\ UNCHANGED << poolsData, filteredPools, taskPc, hist, results,
                    poolsRequests, histRequests >>
    /\ UNCHANGED << pageVars, apyVars, walletVars, uiVars >>

\* await poolsResponse.json() settles.  On a parsed body the handler filters
\* and maps the list and starts every history task: each runs to its first
\* await, which issues its request.
PoolsJsonSettles(o) ==
    /\ pc = "awaitPoolsJson"
    /\ poolsData' = o
    /\ IF o.k = "badJson" \/ ~o.hasData
       THEN /\ RespondError
            /\ UNCHANGED << filteredPools, taskPc, hist, results, histRequests >>
       ELSE /\ pc' = "awaitAll"
            /\ filteredPools' = FilteredPools(o.data)
            /\ taskPc' = [i \in 1..Len(FilteredPools(o.data)) |-> "fetching"]
            /\ hist' = [i \in 1..Len(FilteredPools(o.data)) |->
                          HistOutcome("pending", NoBody, DefaultNow)]
            /\ results' = FilteredPools(o.data)
            /\ histRequests' = [i \in 1..Len(FilteredPools(o.data)) |->
                                  FilteredPools(o.data)[i].pool]
            /\ UNCHANGED response
    /\ UNCHANGED << poolsFetch, poolsRequests >>
    /\ UNCHANGED << pageVars, apyVars, walletVars, uiVars >>

\* The values of the tasks collected in the order the tasks settle.
TaskReturnsInCompletionOrder(i, mean) ==
    LET settled == Cardinality({ j \in 1..Len(taskPc) : taskPc[j] = "settled" })
    IN  /\ results' = [results EXCEPT ![settled + 1] =
                          [filteredPools[i] EXCEPT !.apyMean30d = mean]]
        /\ taskPc' = [taskPc EXCEPT ![i] = "settled"]
        /\ UNCHANGED << pc, response >>

\* A history task returns { ...pool, apyMean30d }.
TaskReturns(i, mean) ==
    /\ results' = [results EXCEPT ![i] =
                     [filteredPools[i] EXCEPT !.apyMean30d = mean]]
    /\ taskPc' = [taskPc EXCEPT ![i] = "settled"]
    /\ UNCHANGED << pc, response >>

\* A history task without its try/catch: the rejection reaches Promise.all
\* and the outer catch.
OnHistoryErrorEscapes(i) ==
    /\ taskPc' = [taskPc EXCEPT ![i] = "settled"]
    /\ RespondError
    /\ UNCHANGED results

\* The inner catch of a history task: { ...pool, apyMean30d: null }.
OnHistoryError(i) ==
    /\ results' = [results EXCEPT ![i] =
                     [filteredPools[i] EXCEPT !.apyMean30d = NoData]]
    /\ taskPc' = [taskPc EXCEPT ![i] = "settled"]
    /\ UNCHANGED << pc, response >>

\* The history task requesting its history once more after a failed fetch.
HistoryFetchSettlesRetrying(i, o) ==
    /\ pc = "awaitAll"
    /\ i \in 1..Len(taskPc)
    /\ taskPc[i] = "fetching"
    /\ hist' = [hist EXCEPT ![i] = HistOutcome(o, NoBody, DefaultNow)]
    /\ IF o \in {"reject", "notOk"}
       THEN IF Len(histRequests) = Len(filteredPools)
            THEN /\ histRequests' = Append(histRequests, filteredPools[i].pool)
                 /\ UNCHANGED << pc, taskPc, results, response >>
            ELSE OnHistoryError(i) /\ UNCHANGED histRequests
       ELSE /\ taskPc' = [taskPc EXCEPT ![i] = "parsing"]
            /\ UNCHANGED << pc, results, response, histRequests >>
    /\ UNCHANGED << poolsFetch, poolsData, filteredPools, poolsRequests >>
    /\ UNCHANGED << pageVars, apyVars, walletVars, uiVars >>

\* await fetch(".../chart/<id>") of task i settles.
HistoryFetchSettles(i, o) ==
    /\ pc = "awaitAll"
    /\ i \in 1..Len(taskPc)
    /\ taskPc[i] = "fetching"
    /\ hist' = [hist EXCEPT ![i] = HistOutcome(o, NoBody, DefaultNow)]
    /\ IF o \in {"reject", "notOk"}
       THEN OnHistoryError(i)
       ELSE /\ taskPc' = [taskPc EXCEPT ![i] = "parsing"]
            /\ UNCHANGED << pc, results, response >>
    /\ UNCHANGED << poolsFetch, poolsData, filteredPools, poolsRequests,
                    histRequests >>
    /\ UNCHANGED << pageVars, apyVars, walletVars, uiVars >>

\* The data of every history body parsed so far, in task order.
RECURSIVE AllParsedData(_, _)
AllParsedData(h, i) ==
    IF i > Len(h) THEN << >>
    ELSE (IF h[i].k = "body" /\ h[i].hasData THEN h[i].data ELSE << >>)
            \o AllParsedData(h, i + 1)

\* The history task with its recentData kept in one array shared by all
\* tasks instead of a local of the task.
HistoryJsonSettlesSharedData(i, k, t, body) ==
    /\ pc = "awaitAll"
    /\ i \in 1..Len(taskPc)
    /\ taskPc[i] = "parsing"
    /\ hist' = [hist EXCEPT ![i] =
                  HistOutcome(k, IF k = "body" THEN body ELSE NoBody, t)]
    /\ IF k = "badJson" \/ ~body.hasData
       THEN OnHistoryError(i)
       ELSE TaskReturns(i, RouteApyMean30d(AllParsedData(hist', 1), t))
    /\ UNCHANGED << poolsFetch, poolsData, filteredPools, poolsRequests,
                    histRequests >>
    /\ UNCHANGED << pageVars, apyVars, walletVars, uiVars >>

\* await historicalResponse.json() of task i settles; on a parsed body the
\* task reads the clock and computes the mean.  A body without a data array
\* makes .filter throw, which the inner catch takes.
HistoryJsonSettles(i, k, t, body) ==
    /\ pc = "awaitAll"
    /\ i \in 1..Len(taskPc)
    /\ taskPc[i] = "parsing"
    /\ hist' = [hist EXCEPT ![i] =
                  HistOutcome(k, IF k = "body" THEN body ELSE NoBody, t)]
    /\ IF k = "badJson" \/ ~body.hasData
       THEN OnHistoryError(i)
       ELSE TaskReturns(i, RouteApyMean30d(body.data, t))
    /\ UNCHANGED << poolsFetch, poolsData, filteredPools, poolsRequests,
                    histRequests >>
    /\ UNCHANGED << pageVars, apyVars, walletVars, uiVars >>

\* The handler responding without joining its history tasks.
RespondWithoutJoin ==
    /\ pc = "awaitAll"
    /\ pc' = "done"
    /\ response' = DataResponse(results)
    /\ UNCHANGED << poolsFetch, poolsData, filteredPools, taskPc, hist,
                    results, poolsRequests, histRequests >>
    /\ UNCHANGED << pageVars, apyVars, walletVars, uiVars >>

\* Promise.all resolves once every task has settled; the handler responds.
Respond ==
    /\ pc = "awaitAll"
    /\ \A i \in 1..Len(taskPc) : taskPc[i] = "settled"
    /\ pc' = "done"
    /\ response' = DataResponse(results)
    /\ UNCHANGED << poolsFetch, poolsData, filteredPools, taskPc, hist,
                    results, poolsRequests, histRequests >>
    /\ UNCHANGED << pageVars, apyVars, walletVars, uiVars >>

RouteNext ==
    \/ Invoke
    \/ \E o \in {"reject", "notOk", "ok"} : PoolsFetchSettles(o)
    \/ \E o \in { PoolsOutcome("badJson", FALSE, << >>),
                  PoolsOutcome("ok", FALSE, << >>) }
               \cup { PoolsOutcome("ok", TRUE, l) : l \in UpstreamLists } :
          PoolsJsonSettles(o)
    \/ \E i \in 1..MaxPools, o \in {"reject", "notOk", "ok"} :
          HistoryFetchSettles(i, o)
    \/ \E i \in 1..MaxPools, k \in {"badJson", "body"}, t \in RouteNows :
          \E body \in HistoryBodies(t) : HistoryJsonSettles(i, k, t, body)
    \/ Respond

(***************************************************************************)
(* The /api/apy/[poolId] handler.                                          *)
(***************************************************************************)
\* params.poolId: missing, empty, an identifier
ApyPoolIds == { Null, "", IdAaveV3, "00000000-0000-4000-8000-000000000001" }

\* !poolId
IsFalsyId(id) == id = Null \/ id = ""

\* A parsed upstream body: JSON null, or a value whose data member is falsy
\* (absent, null) or a series.
ApyBody(isNull, hasData, data) ==
    [isNull |-> isNull, hasData |-> hasData, data |-> data]

NoApyBody == ApyBody(FALSE, FALSE, << >>)

ApySamples ==
    { Sample(ts, apy) :
        ts \in { TsDate(InstantOf(2024, 8, 1, 0, 0)),
                 TsDate(InstantOf(2024, 8, 2, 3600, 500)) },
        apy \in { JsNum(2), JsNull, JsInfinity } }

ApyBodies ==
    { ApyBody(TRUE, FALSE, << >>), NoApyBody }
        \cup { ApyBody(FALSE, TRUE, d) : d \in SeriesOver(ApySamples) }

\* JSON.stringify of a series, as NextResponse.json does: a number that is
\* not finite is written as null.
JsonSeries(series) ==
    [j \in 1..Len(series) |->
        [series[j] EXCEPT !.apy = IF @.k \in {"nan", "inf"} THEN JsNull ELSE @]]

\* NextResponse.json({ data: data.data || [] }, { status: 200 })
ApyDataResponse(body) ==
    [ status |-> 200, error |-> Null, hasData |-> TRUE,
      data |-> JsonSeries(IF body.hasData THEN body.data ELSE << >>) ]

ApyInit ==
    /\ apyPc = "start"
    /\ apyPoolId \in ApyPoolIds
    /\ apyFetch = "pending"
    /\ apyBody = NoApyBody
    /\ apyRequests = << >>
    /\ apyResponse = NoResponse

\* The state of the /api/apy handler while it serves no request.
ApyIdle ==
    /\ apyPc = "idle"
    /\ apyPoolId = Null
    /\ apyFetch = "pending"
    /\ apyBody = NoApyBody
    /\ apyRequests = << >>
    /\ apyResponse = NoResponse

\* The catch of the handler: the fixed 500 payload.
ApyRespondError ==
    /\ apyPc' = "done"
    /\ apyResponse' = ErrorResponse(500, "Failed to fetch APY history")

\* The handler without its validation of the identifier.
ApyInvokeUnvalidated ==
    /\ apyPc = "start"
    /\ apyPc' = "awaitFetch"
    /\ apyRequests' = Append(apyRequests, apyPoolId)
    /\ UNCHANGED << apyPoolId, apyFetch, apyBody, apyResponse >>
    /\ UNCHANGED << routeVars, pageVars, walletVars, uiVars >>

\* GET is invoked: the identifier is validated, then the history requested.
ApyInvoke ==
    /\ apyPc = "start"
    /\ IF IsFalsyId(apyPoolId)
       THEN /\ apyPc' = "done"
            /\ apyResponse' = ErrorResponse(400, "Invalid pool ID")
            /\ UNCHANGED apyRequests
       ELSE /\ apyPc' = "awaitFetch"
            /\ apyRequests' = Append(apyRequests, apyPoolId)
            /\ UNCHANGED apyResponse
    /\ UNCHANGED << apyPoolId, apyFetch, apyBody >>
    /\ UNCHANGED << routeVars, pageVars, walletVars, uiVars >>

\* await fetch(".../chart/<poolId>") settles.
ApyFetchSettles(o) ==
    /\ apyPc = "awaitFetch"
    /\ apyFetch' = o
    /\ IF o \in {"reject", "notOk"}
       THEN ApyRespondError
       ELSE apyPc' = "awaitJson" /\ UNCHANGED apyResponse
    /\ UNCHANGED << apyPoolId, apyBody, apyRequests >>
    /\ UNCHANGED << routeVars, pageVars, walletVars, uiVars >>

\* await response.json() settles: it rejects, or yields a body.  Reading
\* data.data of a null body throws into the catch.
ApyJsonSettles(k, body) ==
    /\ apyPc = "awaitJson"
    /\ apyFetch' = k
    /\ apyBody' = IF k = "body" THEN body ELSE NoApyBody
    /\ IF k = "badJson" \/ body.isNull
       THEN ApyRespondError
       ELSE /\ apyPc' = "done"
            /\ apyResponse' = ApyDataResponse(body)
    /\ UNCHANGED << apyPoolId, apyRequests >>
    /\ UNCHANGED << routeVars, pageVars, walletVars, uiVars >>

ApyNext ==
    \/ ApyInvoke
    \/ \E o \in {"reject", "notOk", "ok"} : ApyFetchSettles(o)
    \/ \E k \in {"badJson", "body"}, body \in ApyBodies : ApyJsonSettles(k, body)

(***************************************************************************)
(* The history processing, step by step.                                  *)
(***************************************************************************)
Pending == Quotient("pending", 0, 1)

PageInit ==
    /\ now \in PageNows
    /\ rawBody \in HistoryInputs(now)
    /\ pageStep = "fetched"
    /\ apyData = << >>
    /\ routeMean = Pending
    /\ pageMean = Pending
    /\ monthlyApy = << >>

\* The state of the history processing while only the route handler runs.
PageIdle ==
    /\ now = DefaultNow
    /\ rawBody = NoBody
    /\ pageStep = "idle"
    /\ apyData = << >>
    /\ routeMean = Pending
    /\ pageMean = Pending
    /\ monthlyApy = << >>

\* The state of the route handler while only the history processing runs.
RouteIdle ==
    /\ pc = "idle"
    /\ poolsFetch = "pending"
    /\ poolsData = PoolsOutcome("pending", FALSE, << >>)
    /\ filteredPools = << >>
    /\ taskPc = << >>
    /\ hist = << >>
    /\ results = << >>
    /\ poolsRequests = 0
    /\ histRequests = << >>
    /\ response = NoResponse

\* The body of a history task of the route, from the parsed body on: the mean
\* over the body's data; a body without a data array throws into the catch.
RouteAverage ==
    /\ pageStep # "idle"
    /\ routeMean = Pending
    /\ routeMean' = IF rawBody.hasData
                    THEN RouteApyMean30d(rawBody.data, now)
                    ELSE NoData
    /\ UNCHANGED << now, rawBody, pageStep, apyData, pageMean, monthlyApy >>
    /\ UNCHANGED << routeVars, apyVars, walletVars, uiVars >>

\* fetchData: "Process APY data"
ProcessApyData ==
    /\ pageStep = "fetched"
    /\ apyData' = PageApyData(rawBody)
    /\ pageStep' = "processed"
    /\ UNCHANGED << now, rawBody, routeMean, pageMean, monthlyApy >>
    /\ UNCHANGED << routeVars, apyVars, walletVars, uiVars >>

\* fetchData: "Calculate 30-day average APY"
PageAverage ==
    /\ pageStep = "processed"
    /\ pageMean' = PageApyMean30d(apyData, now)
    /\ pageStep' = "averaged"
    /\ UNCHANGED << now, rawBody, apyData, routeMean, monthlyApy >>
    /\ UNCHANGED << routeVars, apyVars, walletVars, uiVars >>

\* fetchData: "Filter for 1st of each month (last 12 months)"
ResampleMonthly ==
    /\ pageStep = "averaged"
    /\ monthlyApy' = MonthlyApy(apyData, now)
    /\ pageStep' = "resampled"
    /\ UNCHANGED << now, rawBody, apyData, routeMean, pageMean >>
    /\ UNCHANGED << routeVars, apyVars, walletVars, uiVars >>

PageNext ==
    \/ RouteAverage
    \/ ProcessApyData
    \/ PageAverage
    \/ ResampleMonthly

(***************************************************************************)
(* The wallet context: WalletProvider with isConnecting and a stored       *)
(* connection promise.                                                     *)
(***************************************************************************)
\* Most connectWallet calls in one run.
MaxCalls == 2

NoPromise == 0

AddrA == "0xA"
AddrB == "0xB"

Msg ==
    [ notInstalled |->
          "MetaMask is not installed. Please install MetaMask to continue.",
      notMetaMask |->
          "Please use MetaMask wallet to connect. Other wallets are not supported.",
      timeout |->
          "Connection timeout. Please try again.",
      noAccounts |->
          "No accounts found. Please unlock your MetaMask wallet.",
      addFailed |->
          "Failed to add Ethereum Mainnet to MetaMask. Please add it manually.",
      switchRejected |->
          "User rejected the network switch. Please switch to Ethereum Mainnet manually.",
      switchFailed |->
          "Failed to switch to Ethereum Mainnet. Please switch manually.",
      generic |->
          "Failed to connect to MetaMask. Please try again.",
      rejected |->
          "Connection rejected. Please approve the connection in MetaMask.",
      pending |->
          "Connection request already pending. Please check MetaMask." ]

\* A thrown value: whether it is an instance of Error, its code member (0
\* when it has none) and its message ("" when it has none).
Thrown(isError, code, message) ==
    [isError |-> isError, code |-> code, message |-> message]

NoError == Thrown(FALSE, 0, "")

\* new Error(message)
NewError(message) == Thrown(TRUE, 0, message)

\* Values a provider request rejects with: EIP-1193 errors (instances of
\* Error carrying a code and the provider's own message) and plain objects
\* carrying a code.
ProviderErrors ==
    { Thrown(TRUE, 4001, "User rejected the request."),
      Thrown(FALSE, 4001, ""),
      Thrown(FALSE, -32002, ""),
      Thrown(FALSE, -32603, "") }

SwitchErrors ==
    { Thrown(TRUE, 4902, "Unrecognized chain ID."),
      Thrown(TRUE, 4001, "User rejected the request."),
      Thrown(FALSE, -32603, "") }

\* The message the catch block of connectWallet alerts.
ErrorMessage(error) ==
    IF error.isError /\ error.message # "" THEN error.message
    ELSE IF error.code = 4001 THEN Msg.rejected
    ELSE IF error.code = -32002 THEN Msg.pending
    ELSE Msg.generic

\* One attempt: the position of its async body, its timer, the accounts it
\* was given, the state of connectPromise, the value it rejected with, the
\* alerts it showed, the chain id getNetwork gave it (0 before that), how its
\* switch and add requests settled, and the code its chain switch was
\* rejected with.
Attempt(pc0, timer, promise, error, shown) ==
    [ pc |-> pc0, timer |-> timer, accounts |-> << >>, promise |-> promise,
      error |-> error, alerts |-> shown, answered |-> FALSE,
      timedOut |-> FALSE, lateAnswer |-> FALSE, chainId |-> 0,
      switch |-> "none", switchCode |-> 0, add |-> "none" ]

WalletInit ==
    /\ walletMounted = TRUE
    /\ ethereum \in { [present |-> FALSE, isMetaMask |-> FALSE],
                      [present |-> TRUE, isMetaMask |-> FALSE],
                      [present |-> TRUE, isMetaMask |-> TRUE] }
    /\ isWalletConnected = FALSE
    /\ account = Null
    /\ isConnecting = FALSE
    /\ connectionPromise = NoPromise
    /\ attempts = << >>
    /\ calls = << >>
    /\ checkPc = IF ethereum.present THEN "awaitAccounts" ELSE "done"

\* The state of the wallet context while no WalletProvider is mounted.
WalletIdle ==
    /\ walletMounted = FALSE
    /\ ethereum = [present |-> FALSE, isMetaMask |-> FALSE]
    /\ isWalletConnected = FALSE
    /\ account = Null
    /\ isConnecting = FALSE
    /\ connectionPromise = NoPromise
    /\ attempts = << >>
    /\ calls = << >>
    /\ checkPc = "done"

WalletOthersUnchanged == UNCHANGED << routeVars, pageVars, apyVars, uiVars >>

\* checkConnection: provider.listAccounts() settles.
CheckConnectionSettles(ok, accounts) ==
    /\ walletMounted
    /\ checkPc = "awaitAccounts"
    /\ checkPc' = "done"
    /\ IF ok /\ Len(accounts) > 0
       THEN /\ account' = accounts[1]
            /\ isWalletConnected' = TRUE
       ELSE UNCHANGED << account, isWalletConnected >>
    /\ UNCHANGED << walletMounted, ethereum, isConnecting, connectionPromise,
                    attempts, calls >>
    /\ WalletOthersUnchanged

\* An attempt that throws before its first await: catch, alert, re-throw and
\* finally all run inside the call of the async body, and only then does
\* connectWallet store the promise.
StartFailed(a, message) ==
    /\ attempts' = Append(attempts,
                      Attempt("done", "none", "rejected", NewError(message),
                              << ErrorMessage(NewError(message)) >>))
    /\ isConnecting' = FALSE
    /\ connectionPromise' = a

\* An attempt that reaches the race of eth_requestAccounts against the timer.
StartRequested(a) ==
    /\ attempts' = Append(attempts,
                      Attempt("awaitAccounts", "armed", "pending", NoError, << >>))
    /\ isConnecting' = TRUE
    /\ connectionPromise' = a

\* connectWallet is called (a Connect button is clicked).
ConnectWallet ==
    /\ walletMounted
    /\ Len(calls) < MaxCalls
    /\ IF connectionPromise # NoPromise
       THEN /\ calls' = Append(calls, connectionPromise)
            /\ UNCHANGED << isConnecting, connectionPromise, attempts >>
       ELSE IF isWalletConnected
       THEN /\ calls' = Append(calls, NoPromise)
            /\ UNCHANGED << isConnecting, connectionPromise, attempts >>
       ELSE /\ calls' = Append(calls, Len(attempts) + 1)
            /\ IF ~ethereum.present
               THEN StartFailed(Len(attempts) + 1, Msg.notInstalled)
               ELSE IF ~ethereum.isMetaMask
               THEN StartFailed(Len(attempts) + 1, Msg.notMetaMask)
               ELSE StartRequested(Len(attempts) + 1)
    /\ UNCHANGED << walletMounted, ethereum, isWalletConnected, account, checkPc >>
    /\ WalletOthersUnchanged

\* finally { setIsConnecting(false); setConnectionPromise(null) }
Finally ==
    /\ isConnecting' = FALSE
    /\ connectionPromise' = NoPromise

\* The catch block of attempt a: alert, re-throw; then the finally block.
\* attempt is the record of the attempt as the failing step leaves it.
Fail(a, error, attempt) ==
    /\ attempts' = [attempts EXCEPT ![a] =
                      [attempt EXCEPT !.pc = "done", !.promise = "rejected",
                                      !.error = error,
                                      !.alerts = Append(@, ErrorMessage(error))]]
    /\ Finally
    /\ UNCHANGED << isWalletConnected, account >>

\* The end of the try block of attempt a, then the finally block.  attempt
\* is the record of the attempt as the last answer leaves it.
Succeed(a, attempt) ==
    /\ attempts' = [attempts EXCEPT ![a] =
                      [attempt EXCEPT !.pc = "done", !.promise = "fulfilled"]]
    /\ account' = attempts[a].accounts[1]
    /\ isWalletConnected' = TRUE
    /\ Finally

\* Attempt a goes on to its next provider request and awaits it.
Continue(a, attempt) ==
    /\ attempts' = [attempts EXCEPT ![a] = attempt]
    /\ UNCHANGED << isWalletConnected, account, isConnecting, connectionPromise >>

WalletFrame == UNCHANGED << walletMounted, ethereum, calls, checkPc >>

\* The provider answers the eth_requestAccounts request of attempt a.  When
\* the race is already settled by the timer the answer has no one waiting.
AccountsAnswer(a, ok, accounts, error) ==
    /\ walletMounted
    /\ a \in 1..Len(attempts)
    /\ attempts[a].timer # "none"
    /\ ~attempts[a].answered
    /\ LET answered == [attempts[a] EXCEPT !.answered = TRUE]
       IN  IF attempts[a].pc # "awaitAccounts"
           THEN /\ attempts' = [attempts EXCEPT ![a] =
                                  [answered EXCEPT !.lateAnswer = TRUE]]
                /\ UNCHANGED << isWalletConnected, account, isConnecting,
                                connectionPromise >>
           ELSE IF ~ok THEN Fail(a, error, answered)
           ELSE IF Len(accounts) = 0
           THEN Fail(a, NewError(Msg.noAccounts), answered)
           ELSE Continue(a, [answered EXCEPT !.pc = "awaitNetwork",
                                             !.accounts = accounts])
    /\ WalletFrame
    /\ WalletOthersUnchanged

\* The race without its timer: the timer firing rejects nothing.
TimeoutIgnored(a) ==
    /\ walletMounted
    /\ a \in 1..Len(attempts)
    /\ attempts[a].timer = "armed"
    /\ attempts' = [attempts EXCEPT ![a] = [@ EXCEPT !.timer = "fired"]]
    /\ UNCHANGED << isWalletConnected, account, isConnecting, connectionPromise >>
    /\ WalletFrame
    /\ WalletOthersUnchanged

\* The 30-second timer of attempt a fires: it rejects the race when the
\* provider has not answered, and has no effect otherwise.
TimeoutFires(a) ==
    /\ walletMounted
    /\ a \in 1..Len(attempts)
    /\ attempts[a].timer = "armed"
    /\ IF attempts[a].pc = "awaitAccounts"
       THEN Fail(a, NewError(Msg.timeout),
                 [attempts[a] EXCEPT !.timer = "fired", !.timedOut = TRUE])
       ELSE /\ attempts' = [attempts EXCEPT ![a] = [@ EXCEPT !.timer = "fired"]]
            /\ UNCHANGED << isWalletConnected, account, isConnecting,
                            connectionPromise >>
    /\ WalletFrame
    /\ WalletOthersUnchanged

\* getNetwork without the chain check: the attempt completes on any chain.
NetworkAnswerAnyChain(a, ok, chainId) ==
    /\ walletMounted
    /\ a \in 1..Len(attempts)
    /\ attempts[a].pc = "awaitNetwork"
    /\ IF ~ok THEN Fail(a, NewError("could not detect network"), attempts[a])
       ELSE Succeed(a, [attempts[a] EXCEPT !.chainId = chainId])
    /\ WalletFrame
    /\ WalletOthersUnchanged

\* provider.getNetwork() of attempt a settles.
NetworkAnswer(a, ok, chainId) ==
    /\ walletMounted
    /\ a \in 1..Len(attempts)
    /\ attempts[a].pc = "awaitNetwork"
    /\ IF ~ok THEN Fail(a, NewError("could not detect network"), attempts[a])
       ELSE IF chainId = 1
       THEN Succeed(a, [attempts[a] EXCEPT !.chainId = chainId])
       ELSE Continue(a, [attempts[a] EXCEPT !.pc = "awaitSwitch",
                                            !.chainId = chainId])
    /\ WalletFrame
    /\ WalletOthersUnchanged

\* The wallet_switchEthereumChain request of attempt a settles.
SwitchAnswer(a, ok, error) ==
    /\ walletMounted
    /\ a \in 1..Len(attempts)
    /\ attempts[a].pc = "awaitSwitch"
    /\ LET failed == [attempts[a] EXCEPT !.switch = "failed",
                                         !.switchCode = error.code]
       IN  IF ok THEN Succeed(a, [attempts[a] EXCEPT !.switch = "ok"])
           ELSE IF error.code = 4902
           THEN Continue(a, [failed EXCEPT !.pc = "awaitAdd"])
           ELSE IF error.code = 4001
           THEN Fail(a, NewError(Msg.switchRejected), failed)
           ELSE Fail(a, NewError(Msg.switchFailed), failed)
    /\ WalletFrame
    /\ WalletOthersUnchanged

\* The wallet_addEthereumChain request of attempt a settles.
AddAnswer(a, ok) ==
    /\ walletMounted
    /\ a \in 1..Len(attempts)
    /\ attempts[a].pc = "awaitAdd"
    /\ IF ok THEN Succeed(a, [attempts[a] EXCEPT !.add = "ok"])
       ELSE Fail(a, NewError(Msg.addFailed),
                 [attempts[a] EXCEPT !.add = "failed"])
    /\ WalletFrame
    /\ WalletOthersUnchanged

\* setAccount(null); setIsWalletConnected(false); setConnectionPromise(null);
\* setIsConnecting(false)
ResetWallet ==
    /\ account' = Null
    /\ isWalletConnected' = FALSE
    /\ connectionPromise' = NoPromise
    /\ isConnecting' = FALSE

DisconnectWallet ==
    /\ walletMounted
    /\ ResetWallet
    /\ UNCHANGED attempts
    /\ WalletFrame
    /\ WalletOthersUnchanged

\* The provider's 'accountsChanged' event.  args[0] is cast to string[]
\* unchecked: reading the length of undefined throws out of the listener, and
\* the first element is stored whatever it is.
HandleAccountsChanged(payload) ==
    /\ walletMounted
    /\ ethereum.present
    /\ IF ~payload.isArray
       THEN UNCHANGED << account, isWalletConnected, connectionPromise,
                         isConnecting >>
       ELSE IF Len(payload.items) > 0
       THEN /\ account' = payload.items[1]
            /\ isWalletConnected' = TRUE
            /\ UNCHANGED << connectionPromise, isConnecting >>
       ELSE ResetWallet
    /\ UNCHANGED attempts
    /\ WalletFrame
    /\ WalletOthersUnchanged

\* The provider's 'disconnect' event.
HandleDisconnect ==
    /\ walletMounted
    /\ ethereum.present
    /\ ResetWallet
    /\ UNCHANGED attempts
    /\ WalletFrame
    /\ WalletOthersUnchanged

\* Account lists the provider gives: to eth_requestAccounts, and to
\* listAccounts and the 'accountsChanged' listeners.
RequestedAccountLists == { << >>, << AddrA, AddrB >> }

EventAccountLists == { << >>, << AddrB >> }

\* Payloads of the 'accountsChanged' event: lists of addresses, a list whose
\* first element is null, and undefined.
EventPayloads ==
    { [isArray |-> TRUE, items |-> l] : l \in EventAccountLists \cup { << Null >> } }
        \cup { [isArray |-> FALSE, items |-> << >>] }

WalletNext ==
    \/ \E accounts \in EventAccountLists : CheckConnectionSettles(TRUE, accounts)
    \/ CheckConnectionSettles(FALSE, << >>)
    \/ ConnectWallet
    \/ \E a \in 1..MaxCalls, accounts \in RequestedAccountLists :
          AccountsAnswer(a, TRUE, accounts, NoError)
    \/ \E a \in 1..MaxCalls, error \in ProviderErrors :
          AccountsAnswer(a, FALSE, << >>, error)
    \/ \E a \in 1..MaxCalls : TimeoutFires(a)
    \/ \E a \in 1..MaxCalls, chainId \in {1, 137} : NetworkAnswer(a, TRUE, chainId)
    \/ \E a \in 1..MaxCalls : NetworkAnswer(a, FALSE, 0)
    \/ \E a \in 1..MaxCalls : SwitchAnswer(a, TRUE, NoError)
    \/ \E a \in 1..MaxCalls, error \in SwitchErrors : SwitchAnswer(a, FALSE, error)
    \/ \E a \in 1..MaxCalls, ok \in BOOLEAN : AddAnswer(a, ok)
    \/ DisconnectWallet
    \/ \E payload \in EventPayloads : HandleAccountsChanged(payload)
    \/ HandleDisconnect

(***************************************************************************)
(* The pools table: DeFiPoolsTable.fetchPools and the rendering of rows.   *)
(***************************************************************************)
\* Longest pool list the table is given.
MaxRows == 2

TableFailure == "Failed to load pool data. Please try again later."

\* A pool as the table reads it: identifier, category, apy.
TablePool(id, category, apy) == [pool |-> id, category |-> category, apy |-> apy]

\* Parsed bodies of /api/pools: a data list, an error member, or both.
TableBodies ==
    LET lists == UNION { [1..n -> { TablePool(IdAaveV3, "Lending", JsNum(2)),
                                    TablePool(IdBeefy, "Yield Aggregator", JsNum(4)),
                                    TablePool(IdYearnFinance, "Yield Aggregator",
                                              JsNull) }] : n \in 0..MaxRows }
    IN  { [kind |-> "body", data |-> l, error |-> Null] : l \in lists }
            \cup { [kind |-> "body", data |-> l, error |-> "Failed to fetch pool data"] :
                     l \in { << >>, << TablePool(IdBeefy, "Yield Aggregator", JsNum(4)) >> } }

TableSettled(kind) == [kind |-> kind, data |-> << >>, error |-> Null]

\* Mount: the initial state, and fetchPools up to its first await.
TableInit ==
    /\ tablePc = "awaitFetch"
    /\ tablePools = << >>
    /\ tableLoading = TRUE
    /\ tableError = Null
    /\ tableResult = TableSettled("pending")

\* The state of the table's variables while no table is mounted.
TableIdle ==
    /\ tablePc = "idle"
    /\ tablePools = << >>
    /\ tableLoading = TRUE
    /\ tableError = Null
    /\ tableResult = TableSettled("pending")

TableOthersUnchanged ==
    UNCHANGED << routeVars, pageVars, apyVars, walletVars, detailsVars, shellVars >>

\* The catch block and the finally block of fetchPools.
TableFails(result) ==
    /\ tablePc' = "done"
    /\ tableResult' = result
    /\ tableError' = TableFailure
    /\ tablePools' = << >>
    /\ tableLoading' = FALSE

\* fetch("/api/pools") settles: rejected, or a response that is ok or not.
TableFetchSettles(o) ==
    /\ tablePc = "awaitFetch"
    /\ IF o = "ok"
       THEN /\ tablePc' = "awaitJson"
            /\ UNCHANGED << tablePools, tableLoading, tableError, tableResult >>
       ELSE TableFails(TableSettled(o))
    /\ TableOthersUnchanged

\* The parsed body taken as a success whatever its error member holds.
TableJsonSettlesIgnoringError(ok, body) ==
    /\ tablePc = "awaitJson"
    /\ IF ~ok THEN TableFails(TableSettled("badJson"))
       ELSE /\ tablePc' = "done"
            /\ tableResult' = body
            /\ tablePools' = body.data
            /\ tableLoading' = FALSE
            /\ UNCHANGED tableError
    /\ TableOthersUnchanged

\* response.json() settles: rejected, or a parsed body.
TableJsonSettles(ok, body) ==
    /\ tablePc = "awaitJson"
    /\ IF ~ok THEN TableFails(TableSettled("badJson"))
       ELSE IF body.error # Null THEN TableFails(body)
       ELSE /\ tablePc' = "done"
            /\ tableResult' = body
            /\ tablePools' = body.data
            /\ tableLoading' = FALSE
            /\ UNCHANGED tableError
    /\ TableOthersUnchanged

\* The wallet ignored: every row is unlocked.
NeverLocked(pool) == FALSE

\* isLocked of a row
IsLocked(pool) == pool.category = "Yield Aggregator" /\ ~isWalletConnected

\* href of a row's link: "#", or the path /pools/{pool.pool}
Href(pool) == IF IsLocked(pool) THEN << "#" >> ELSE << "/pools/", pool.pool >>

\* The rows rendered: none while loading or with an error; else the pools
\* that pass the filters in their initial setting (a finite apy), each with
\* its lock and its link.
Rows ==
    IF tableLoading \/ tableError # Null THEN << >>
    ELSE LET shown == SelectSeq(tablePools, LAMBDA pool : pool.apy.k = "num")
         IN  [i \in 1..Len(shown) |->
                 [pool |-> shown[i], isLocked |-> IsLocked(shown[i]),
                  href |-> Href(shown[i])]]

\* The table's load, and the wallet context changing under the table.
TableNext ==
    \/ \E o \in {"rejected", "notOk", "ok"} : TableFetchSettles(o)
    \/ \E body \in TableBodies : TableJsonSettles(TRUE, body)
    \/ TableJsonSettles(FALSE, TableSettled("badJson"))
    \/ \E accounts \in EventAccountLists : CheckConnectionSettles(TRUE, accounts)
    \/ \E payload \in EventPayloads : HandleAccountsChanged(payload)
    \/ HandleDisconnect

(***************************************************************************)
(* The pool-details page: PoolDetails and the fetchData runs of its        *)
(* effect on [poolId].                                                     *)
(***************************************************************************)
\* Most fetchData runs started on one mounted page.
MaxRuns == 2

InvalidPoolId == "Invalid pool ID"

\* useState<Pool | null>(null)
NoPool == [pool |-> Null, apyMean30d |-> NoData]

\* A pool as the details page reads it: identifier and supplied 30-day mean.
DetailsPool(id, apyMean30d) == [pool |-> id, apyMean30d |-> apyMean30d]

\* params.poolId: two pools, or no identifier.
DetailsPoolIds == { IdAaveV3, IdBeefy }

\* new Date() of a run
DetailsNow == InstantOf(2024, 8, 15, 36000, 700)

\* What the request to /api/pools comes to: a thrown error with its message,
\* an error member in the body, or a data list.
PoolsResults ==
    { [ok |-> FALSE, error |-> m, data |-> << >>] :
        m \in { "Failed to fetch", "Pool API error: Internal Server Error" } }
        \cup { [ok |-> TRUE, error |-> "Failed to fetch pool data", data |-> << >>] }
        \cup { [ok |-> TRUE, error |-> Null, data |-> d] :
                 d \in { << DetailsPool(IdAaveV3, NoData),
                            DetailsPool(IdBeefy, Quotient("num", 7, 1)) >>,
                         << DetailsPool(IdAaveV3, Quotient("num", 5, 1)),
                            DetailsPool(IdBeefy, NoData) >>,
                         << DetailsPool(IdBeefy, Quotient("num", 7, 1)) >> } }

\* A fetchData run: the poolId it closed over, where it stands, and what it
\* found: the pool selected, the mean and the series computed, its error.
Run(poolId) ==
    [poolId |-> poolId, pc |-> "awaitPools", selected |-> NoPool,
     computed |-> NoData, monthly |-> << >>, error |-> Null]

Runs == 1..Len(runs)

\* poolResult.data.find((p) => p.pool === poolId)
FindPool(data, poolId) ==
    LET hits == SelectSeq(data, LAMBDA p : p.pool = poolId)
    IN  IF Len(hits) = 0 THEN NoPool ELSE hits[1]

\* The mean overwritten whatever the pool held.
OverwriteMean(prev, apyMean30d) ==
    IF prev = NoPool THEN prev ELSE [prev EXCEPT !.apyMean30d = apyMean30d]

\* setPool((prev) => prev ? {...prev, apyMean30d: prev.apyMean30d != null
\*                                       ? prev.apyMean30d : apyMean30d} : prev)
UpdateMean(prev, apyMean30d) ==
    IF prev = NoPool THEN prev
    ELSE [prev EXCEPT !.apyMean30d = IF @ # NoData THEN @ ELSE apyMean30d]

\* The effect on [poolId]: without a poolId it reports and returns, else it
\* starts fetchData, which runs to its first await.
RunEffect(poolId) ==
    IF poolId = Null
    THEN /\ detailsError' = InvalidPoolId
         /\ detailsLoading' = FALSE
         /\ UNCHANGED runs
    ELSE /\ detailsError' = Null
         /\ detailsLoading' = TRUE
         /\ runs' = Append(runs, Run(poolId))

\* The state of the page's variables while no details page is mounted.
DetailsIdle ==
    /\ detailsPoolId = Null
    /\ detailsPool = NoPool
    /\ apyHistory = << >>
    /\ detailsLoading = TRUE
    /\ detailsError = Null
    /\ runs = << >>

\* Mount: the initial state, then the effect for the first poolId.
DetailsInit ==
    /\ detailsPoolId \in DetailsPoolIds \cup { Null }
    /\ detailsPool = NoPool
    /\ apyHistory = << >>
    /\ IF detailsPoolId = Null
       THEN detailsError = InvalidPoolId /\ detailsLoading = FALSE /\ runs = << >>
       ELSE detailsError = Null /\ detailsLoading = TRUE
                /\ runs = << Run(detailsPoolId) >>

DetailsOthersUnchanged ==
    UNCHANGED << routeVars, pageVars, apyVars, walletVars, tableVars, shellVars >>

\* Navigation to another pool: the page re-renders with the new poolId and
\* the effect runs again; runs already started are left running.
ChangePoolId(poolId) ==
    /\ poolId # detailsPoolId
    /\ Len(runs) < MaxRuns
    /\ detailsPoolId' = poolId
    /\ RunEffect(poolId)
    /\ UNCHANGED << detailsPool, apyHistory >>
    /\ DetailsOthersUnchanged

\* The catch block and the finally block of fetchData.
RunFails(r, message) ==
    /\ runs' = [runs EXCEPT ![r] = [@ EXCEPT !.pc = "done", !.error = message]]
    /\ detailsError' = message
    /\ detailsLoading' = FALSE
    /\ UNCHANGED << detailsPoolId, detailsPool, apyHistory >>

\* The request of run r to /api/pools settles: fetch and response.json().
PoolsSettle(r, result) ==
    /\ r \in Runs
    /\ runs[r].pc = "awaitPools"
    /\ LET selectedPool == FindPool(result.data, runs[r].poolId)
       IN  IF ~result.ok \/ result.error # Null
           THEN RunFails(r, result.error)
           ELSE IF selectedPool = NoPool
           THEN RunFails(r, "Pool not found")
           ELSE /\ detailsPool' = selectedPool
                /\ runs' = [runs EXCEPT ![r] = [@ EXCEPT !.pc = "awaitApy",
                                                         !.selected = selectedPool]]
                /\ UNCHANGED << detailsPoolId, apyHistory, detailsLoading,
                                detailsError >>
    /\ DetailsOthersUnchanged

\* fetchData from the parsed history body on: the 30-day mean and the
\* monthly series it computes.
ProcessHistory(body) ==
    LET points == PageApyData(body)
    IN  [mean |-> PageApyMean30d(points, DetailsNow),
         monthly |-> MonthlyApy(points, DetailsNow)]

\* What the history bodies come to.
ProcessedHistories == { ProcessHistory(body) : body \in HistoryBodies(DetailsNow) }

\* The request of run r to /api/apy/{poolId} settles: the mean and the
\* monthly series are computed and stored.
ApySettle(r, ok, processed) ==
    /\ r \in Runs
    /\ runs[r].pc = "awaitApy"
    /\ IF ~ok
       THEN RunFails(r, "APY API error: Internal Server Error")
       ELSE /\ detailsPool' = UpdateMean(detailsPool, processed.mean)
            /\ apyHistory' = processed.monthly
            /\ detailsLoading' = FALSE
            /\ runs' = [runs EXCEPT ![r] = [@ EXCEPT !.pc = "done",
                                                     !.computed = processed.mean,
                                                     !.monthly = processed.monthly]]
            /\ UNCHANGED << detailsPoolId, detailsError >>
    /\ DetailsOthersUnchanged

\* What a view of the page shows: the skeleton, the error, "Pool not found.",
\* or a pool with its history.
View(loading, message, shown, history) ==
    IF loading THEN [kind |-> "loading", error |-> Null, pool |-> NoPool, history |-> << >>]
    ELSE IF message # Null
    THEN [kind |-> "error", error |-> message, pool |-> NoPool, history |-> << >>]
    ELSE IF shown = NoPool
    THEN [kind |-> "notFound", error |-> Null, pool |-> NoPool, history |-> << >>]
    ELSE [kind |-> "pool", error |-> Null, pool |-> shown, history |-> history]

\* The page as rendered from its state.
Displayed == View(detailsLoading, detailsError, detailsPool, apyHistory)

DetailsNext ==
    \/ \E poolId \in DetailsPoolIds \cup { Null } : ChangePoolId(poolId)
    \/ \E r \in 1..MaxRuns, result \in PoolsResults : PoolsSettle(r, result)
    \/ \E r \in 1..MaxRuns, processed \in ProcessedHistories :
          ApySettle(r, TRUE, processed)
    \/ \E r \in 1..MaxRuns : ApySettle(r, FALSE, ProcessHistory(NoBody))

(***************************************************************************)
(* The dashboard shell and the resize handle of its sidebar.               *)
(***************************************************************************)
MathMin(a, b) == IF a <= b THEN a ELSE b

MathMax(a, b) == IF a >= b THEN a ELSE b

DecimalDigits == << "0", "1", "2", "3", "4", "5", "6", "7", "8", "9" >>

\* String(w) of an integer: a minus sign when negative, its decimal digits
RECURSIVE DecimalString(_)
DecimalString(w) ==
    IF w < 0 THEN << "-" >> \o DecimalString(-w)
    ELSE IF w < 10 THEN << DecimalDigits[w + 1] >>
    ELSE Append(DecimalString(w \div 10), DecimalDigits[(w % 10) + 1])

DigitValue(c) == CHOOSE d \in 0..9 : DecimalDigits[d + 1] = c

IsDigit(c) == \E d \in 0..9 : DecimalDigits[d + 1] = c

\* The value of the digits of s from position i on, up to the first
\* character that is no digit.
RECURSIVE ParseDigits(_, _, _)
ParseDigits(s, i, acc) ==
    IF i > Len(s) \/ ~IsDigit(s[i]) THEN acc
    ELSE ParseDigits(s, i + 1, 10 * acc + DigitValue(s[i]))

\* parseInt(s, 10): an optional sign and the leading digits; NaN when no
\* digit follows
ParseInt(s) ==
    LET signed == Len(s) > 0 /\ s[1] \in { "-", "+" }
        first == IF signed THEN 2 ELSE 1
    IN  IF first > Len(s) \/ ~IsDigit(s[first]) THEN JsNaN
        ELSE JsNum((IF signed /\ s[1] = "-" THEN -1 ELSE 1) * ParseDigits(s, first, 0))

\* An item of localStorage: absent (getItem gives null), or a string.
NoItem == [present |-> FALSE, value |-> << >>]

Item(s) == [present |-> TRUE, value |-> s]

\* What "__sidebar_width__" holds at mount: nothing, or what handleResize
\* wrote in an earlier visit.
StoredWidths == { NoItem } \cup { Item(DecimalString(w)) : w \in {200, 300, 420} }

\* moveEvent.clientX - startX of a mousemove
Deltas == { -300, -60, 60, 300 }

NoDrag == [active |-> FALSE, startWidth |-> 0]

\* width prop of the Sidebar
Width ==
    IF isLg
    THEN IF collapsed THEN 72 ELSE sidebarWidth
    ELSE MathMin(280, MathMax(220, sidebarWidth))

\* collapsed prop of the Sidebar
CollapsedProp == IF isLg THEN collapsed ELSE FALSE

\* The state of the shell's variables while no shell is mounted.
ShellIdle ==
    /\ shellPc = "idle"
    /\ sidebarWidth = 320
    /\ collapsed = FALSE
    /\ isLg = FALSE
    /\ savedWidth = NoItem
    /\ savedCollapsed = Null
    /\ mediaMatches = FALSE
    /\ drag = NoDrag

\* The first render: the initial state, the mount effect not yet run.
ShellInit ==
    /\ shellPc = "rendered"
    /\ sidebarWidth = 320
    /\ collapsed = FALSE
    /\ isLg = FALSE
    /\ savedWidth \in StoredWidths
    /\ savedCollapsed \in { Null, "0", "1" }
    /\ mediaMatches \in BOOLEAN
    /\ drag = NoDrag

ShellOthersUnchanged ==
    UNCHANGED << routeVars, pageVars, apyVars, walletVars, tableVars, detailsVars >>

\* The mount effect: width and collapsed restored, isLg read, listener added.
MountEffect ==
    /\ shellPc = "rendered"
    /\ shellPc' = "mounted"
    /\ LET parsed == ParseInt(savedWidth.value)
       IN  sidebarWidth' = IF savedWidth.present /\ Len(savedWidth.value) > 0
                              /\ parsed # JsNaN
                           THEN parsed.v
                           ELSE sidebarWidth
    /\ collapsed' = IF savedCollapsed = "1" THEN TRUE ELSE collapsed
    /\ isLg' = mediaMatches
    /\ UNCHANGED << savedWidth, savedCollapsed, mediaMatches, drag >>
    /\ ShellOthersUnchanged

\* The media query changes; the listener, once added, sets isLg.
MediaChange ==
    /\ shellPc \in { "rendered", "mounted" }
    /\ mediaMatches' = ~mediaMatches
    /\ isLg' = IF shellPc = "mounted" THEN ~mediaMatches ELSE isLg
    /\ UNCHANGED << shellPc, sidebarWidth, collapsed, savedWidth, savedCollapsed,
                    drag >>
    /\ ShellOthersUnchanged

\* toggleCollapsed
ToggleCollapsed ==
    /\ shellPc = "mounted"
    /\ collapsed' = ~collapsed
    /\ savedCollapsed' = IF ~collapsed THEN "1" ELSE "0"
    /\ UNCHANGED << shellPc, sidebarWidth, isLg, savedWidth, mediaMatches, drag >>
    /\ ShellOthersUnchanged

\* onMouseDown of the resize handle: nothing when collapsed, else the drag
\* starts from the width rendered.
StartResize ==
    /\ shellPc = "mounted"
    /\ ~drag.active
    /\ drag' = IF CollapsedProp THEN drag
               ELSE [active |-> TRUE, startWidth |-> Width]
    /\ UNCHANGED << shellPc, sidebarWidth, collapsed, isLg, savedWidth,
                    savedCollapsed, mediaMatches >>
    /\ ShellOthersUnchanged

\* The width taken as the pointer has it.
UnclampedWidth(startWidth, delta) == startWidth + delta

\* next of onMove
NextWidth(startWidth, delta) == MathMin(420, MathMax(200, startWidth + delta))

\* onMove of a drag, and handleResize of the shell
MouseMove(delta) ==
    /\ drag.active
    /\ sidebarWidth' = NextWidth(drag.startWidth, delta)
    /\ savedWidth' = Item(DecimalString(NextWidth(drag.startWidth, delta)))
    /\ UNCHANGED << shellPc, collapsed, isLg, savedCollapsed, mediaMatches, drag >>
    /\ ShellOthersUnchanged

\* onUp of a drag
MouseUp ==
    /\ drag.active
    /\ drag' = NoDrag
    /\ UNCHANGED << shellPc, sidebarWidth, collapsed, isLg, savedWidth,
                    savedCollapsed, mediaMatches >>
    /\ ShellOthersUnchanged

\* The page is loaded again: the shell renders from its initial state, the
\* stored items as the last visit left them.
Reload ==
    /\ shellPc = "mounted"
    /\ shellPc' = "rendered"
    /\ sidebarWidth' = 320
    /\ collapsed' = FALSE
    /\ isLg' = FALSE
    /\ drag' = NoDrag
    /\ UNCHANGED << savedWidth, savedCollapsed, mediaMatches >>
    /\ ShellOthersUnchanged

ShellNext ==
    \/ MountEffect
    \/ Reload
    \/ MediaChange
    \/ ToggleCollapsed
    \/ StartResize
    \/ \E delta \in Deltas : MouseMove(delta)
    \/ MouseUp

(***************************************************************************)
(* Specifications.                                                         *)
(***************************************************************************)
\* No component of the user interface mounted.
UiIdle == TableIdle /\ DetailsIdle /\ ShellIdle

\* Nothing running on the server side and no history processing.
ServerIdle == RouteIdle /\ PageIdle /\ ApyIdle

\* The /api/pools handler serving one request.
Init == RouteInit /\ PageIdle /\ ApyIdle /\ WalletIdle /\ UiIdle

Next == RouteNext

Spec == Init /\ [][Next]_vars

\* The history processing applied to one history body at one clock reading.
HistoryInit == PageInit /\ RouteIdle /\ ApyIdle /\ WalletIdle /\ UiIdle

SpecHistory == HistoryInit /\ [][PageNext]_vars

\* One request served by one of the two route handlers.
RoutesInit ==
    \/ RouteInit /\ PageIdle /\ ApyIdle /\ WalletIdle /\ UiIdle
    \/ RouteIdle /\ PageIdle /\ ApyInit /\ WalletIdle /\ UiIdle

RoutesNext == RouteNext \/ ApyNext

SpecRoutes == RoutesInit /\ [][RoutesNext]_vars

\* The wallet context from mount on: clicks, provider answers, timers, events.
WalletSpecInit == WalletInit /\ RouteIdle /\ PageIdle /\ ApyIdle /\ UiIdle

SpecWallet == WalletSpecInit /\ [][WalletNext]_vars

\* One asynchronous operation of the application: a request to one of the
\* route handlers, or the wallet context from mount on.
AppInit == RoutesInit \/ WalletSpecInit

AppNext == RoutesNext \/ WalletNext

SpecApp == AppInit /\ [][AppNext]_vars

\* The pools table from mount on, under a mounted wallet context.
TableSpecInit ==
    TableInit /\ WalletInit /\ ServerIdle /\ DetailsIdle /\ ShellIdle

SpecTable == TableSpecInit /\ [][TableNext]_vars

\* The pool-details page from mount on, through changes of its poolId.
DetailsSpecInit ==
    DetailsInit /\ WalletIdle /\ ServerIdle /\ TableIdle /\ ShellIdle

SpecDetails == DetailsSpecInit /\ [][DetailsNext]_vars

\* The dashboard shell from its first render on.
ShellSpecInit ==
    ShellInit /\ WalletIdle /\ ServerIdle /\ TableIdle /\ DetailsIdle

SpecShell == ShellSpecInit /\ [][ShellNext]_vars

\* A timer that is armed fires: setTimeout callbacks run.
SpecWalletFair ==
    SpecWallet /\ \A a \in 1..MaxCalls : WF_vars(TimeoutFires(a))

(***************************************************************************)
(* Properties of the /api/pools route.                                     *)
(***************************************************************************)
\* Two strings are equal up to the case of their ASCII letters.
SameIgnoringCase(a, b) ==
    /\ Len(a) = Len(b)
    /\ \A i \in 1..Len(a) :
          \/ a[i] = b[i]
          \/ \E j \in 1..Len(UpperAlphabet) :
                {a[i], b[i]} = {UpperAlphabet[j], LowerAlphabet[j]}

LendingProjects == { StrAaveV3, StrCompoundV3, StrMaple }
LiquidStakingProjects == { StrLido, StrBinanceStakedEth, StrStader }

ExpectedCategory(project) ==
    IF \E n \in LendingProjects : SameIgnoringCase(project, n)
    THEN "Lending"
    ELSE IF \E n \in LiquidStakingProjects : SameIgnoringCase(project, n)
         THEN "Liquid Staking"
         ELSE "Yield Aggregator"

CategoryOk(p) ==
    /\ p.category = ExpectedCategory(p.project)
    /\ p.category \in {"Lending", "Liquid Staking", "Yield Aggregator"}

\* C1: every pool the route builds or returns carries the category that its
\* project name, compared without regard to case, determines: Lending for
\* aave-v3 / compound-v3 / maple, Liquid Staking for lido /
\* binance-staked-eth / stader, Yield Aggregator for anything else.
C1_CategoryFromLowerCasedProject ==
    /\ \A i \in 1..Len(filteredPools) : CategoryOk(filteredPools[i])
    /\ \A i \in 1..Len(results) : CategoryOk(results[i])
    /\ \A i \in 1..Len(response.data) : CategoryOk(response.data[i])

\* A response holding a Liquid Staking pool whose project is not spelled in
\* lower case, next to a Yield Aggregator pool.
C1_Witness ==
    /\ response.status = 200
    /\ \E i, j \in 1..Len(response.data) :
          /\ response.data[i].category = "Liquid Staking"
          /\ response.data[i].project # toLowerCase(response.data[i].project)
          /\ response.data[j].category = "Yield Aggregator"

CountOf(list, id) == Cardinality({ i \in 1..Len(list) : list[i].pool = id })

AllowList == { targetPoolIds[i] : i \in 1..Len(targetPoolIds) }

\* C2: the pools of a successful response are exactly the upstream entries
\* whose identifier is allow-listed: each allow-listed identifier occurs as
\* often as in the upstream list, any other identifier not at all.
C2_ExactlyAllowListed ==
    (pc = "done" /\ response.status = 200) =>
        /\ \A i \in 1..Len(response.data) : response.data[i].pool \in AllowList
        /\ \A i \in 1..Len(poolsData.data) :
              LET id == poolsData.data[i].pool
              IN  CountOf(response.data, id) =
                    IF id \in AllowList THEN CountOf(poolsData.data, id) ELSE 0

\* A successful response to an upstream list of one allow-listed and one other
\* entry.
C2_Witness ==
    /\ pc = "done"
    /\ response.status = 200
    /\ Len(poolsData.data) = 2
    /\ Len(response.data) = 1
    /\ \E i \in 1..2 : poolsData.data[i].pool \notin AllowList

\* The history request of task i failed: network error, non-OK status,
\* unparsable body, or a body without a data array.
HistoryFailed(i) ==
    \/ hist[i].k \in {"reject", "notOk", "badJson"}
    \/ hist[i].k = "body" /\ ~hist[i].hasData

WellFormedSample(e) == e.timestamp.k = "date" /\ e.apy.k = "num"

\* A sample of task i's history lies in the 30 days before the task's clock
\* reading.
InWindow30d(e, t) ==
    /\ e.timestamp.k = "date"
    /\ \/ e.timestamp.s > t.s - 30 * SecondsPerDay
       \/ e.timestamp.s = t.s - 30 * SecondsPerDay /\ e.timestamp.ms >= t.ms

HasSampleInWindow(i) ==
    \E j \in 1..Len(hist[i].data) : InWindow30d(hist[i].data[j], hist[i].now)

C4_ListFailureIsFixed500 ==
    (poolsFetch \in {"reject", "notOk"}) =>
        /\ histRequests = << >>
        /\ pc = "done"
        /\ response.status = 500
        /\ response.error = "Failed to fetch pool data"
        /\ ~response.hasData
        /\ response.data = << >>

\* The handler has answered a non-OK pool-list status.
C4_Witness ==
    /\ pc = "done"
    /\ poolsFetch = "notOk"
    /\ response.status = 500

(***************************************************************************)
(* Properties of the trailing 30-day mean (route and pool-details page).   *)
(***************************************************************************)
Computed(mean) == mean # Pending

Series == rawBody.data

\* the instant of a sample's timestamp
InstantOfSample(e) == Instant(e.timestamp.s, e.timestamp.ms)

\* C5: for an empty sample sequence both the route's and the page's trailing
\* average are "no data" (null): not 0, not NaN.
C5_EmptySeriesHasNoData ==
    (Len(Series) = 0) =>
        /\ Computed(routeMean) => routeMean = NoData
        /\ Computed(pageMean) => pageMean = NoData

\* Both computations have run on an empty data array.
C5_Witness ==
    /\ rawBody.hasData
    /\ Series = << >>
    /\ routeMean = NoData
    /\ pageMean = NoData

\* Every sample is well-formed and stamped exactly 31 days before the clock
\* reading.
AllExactly31DaysOld ==
    /\ rawBody.hasData
    /\ Len(Series) > 0
    /\ \A j \in 1..Len(Series) :
          /\ WellFormedSample(Series[j])
          /\ InstantOfSample(Series[j]) = DaysBefore(now, 31, now.ms)

\* C6: when every sample is stamped exactly 31 days before the current time,
\* the trailing average is "no data" in the route and in the page, at every
\* current time.
C6_SamplesAged31DaysHaveNoData ==
    AllExactly31DaysOld =>
        /\ Computed(routeMean) => routeMean = NoData
        /\ Computed(pageMean) => pageMean = NoData

\* Sum of the apy numbers of the samples at a set of positions.
RECURSIVE SumAt(_, _)
SumAt(series, positions) ==
    IF positions = { } THEN 0
    ELSE LET j == CHOOSE p \in positions : TRUE
         IN  series[j].apy.v + SumAt(series, positions \ {j})

\* sum / count over the samples at a set of positions; "no data" for none
MeanAt(series, positions) ==
    IF positions = { } THEN NoData
    ELSE Quotient("num", SumAt(series, positions), Cardinality(positions))

WithinTrailing30Days == { j \in 1..Len(Series) : InWindow30d(Series[j], now) }

AllWellFormed == \A j \in 1..Len(Series) : WellFormedSample(Series[j])

\* C7: for a series of well-formed samples, the trailing average of the route
\* and of the page is the arithmetic mean of apy over exactly the samples
\* with timestamp >= now - 30 days, and "no data" iff there is none.
C7_MeanOverTrailing30Days ==
    AllWellFormed =>
        /\ Computed(routeMean) => routeMean = MeanAt(Series, WithinTrailing30Days)
        /\ Computed(pageMean) => pageMean = MeanAt(Series, WithinTrailing30Days)

\* The well-formed samples inside the route's window and inside the window
\* the page computes.
WellFormedInRouteWindow ==
    { j \in 1..Len(Series) :
        WellFormedSample(Series[j]) /\ InWindow30d(Series[j], now) }

WellFormedInPageWindow ==
    { j \in 1..Len(Series) :
        /\ WellFormedSample(Series[j])
        /\ Series[j].timestamp.s >= subMonths(now, 1).s }

\* C8: malformed samples (apy null, not a number or not finite; timestamp
\* absent) change neither sum nor count: each computation yields the mean of
\* the well-formed samples in its window, and never NaN.
C8_MalformedSamplesExcluded ==
    /\ Computed(routeMean) =>
          /\ routeMean = MeanAt(Series, WellFormedInRouteWindow)
          /\ routeMean.k # "nan"
    /\ Computed(pageMean) =>
          /\ pageMean = MeanAt(Series, WellFormedInPageWindow)
          /\ pageMean.k # "nan"

(***************************************************************************)
(* Properties of the monthly resampler.                                    *)
(***************************************************************************)
Resampled == pageStep = "resampled"

\* C9: the monthly resampler emits at most 12 entries, and no two of them
\* carry the same month label.
C9_AtMost12DistinctLabels ==
    Resampled =>
        /\ Len(monthlyApy) <= 12
        /\ \A a, b \in 1..Len(monthlyApy) :
              a # b => monthlyApy[a].month # monthlyApy[b].month

\* The target months: the current month (0) and the 11 preceding.
TargetMonths == 0..11

\* A sample the series can supply: it has a timestamp and a numeric apy.
Usable(e) == e.timestamp.k = "date" /\ e.apy.k \in {"num", "inf"}

\* Sample e qualifies for target month i: its timestamp, in whole epoch
\* seconds, is within 3 days of the first of that month and not before the
\* start of the 12-month window, in whole epoch seconds.
QualifiesIn(e, firstOfMonth, windowStart) ==
    /\ Usable(e)
    /\ e.timestamp.s >= firstOfMonth - 3 * SecondsPerDay
    /\ e.timestamp.s <= firstOfMonth + 3 * SecondsPerDay
    /\ e.timestamp.s >= windowStart

Qualifies(e, i) ==
    QualifiesIn(e, startOfMonth(subMonths(now, i)).s, subMonths(now, 12).s)

Qualifying(i) == { j \in 1..Len(Series) : Qualifies(Series[j], i) }

\* entry is sample e of the input
IsSample(entry, e) == entry.timestamp = e.timestamp.s /\ entry.apy = e.apy

CalendarMonthOf(entry) ==
    LET c == CivilOf(FromEpochSeconds(entry.timestamp)) IN << c.y, c.m >>

\* C11: the resampler's output is ordered oldest first, with strictly
\* increasing timestamps, and holds at most one entry per calendar month.
C11_OldestFirstOnePerCalendarMonth ==
    Resampled =>
        /\ \A a \in 1..Len(monthlyApy) - 1 :
              monthlyApy[a].timestamp < monthlyApy[a + 1].timestamp
        /\ \A a, b \in 1..Len(monthlyApy) :
              a # b => CalendarMonthOf(monthlyApy[a]) # CalendarMonthOf(monthlyApy[b])

\* the ordering half alone
C11_StrictlyIncreasing ==
    Resampled =>
        \A a \in 1..Len(monthlyApy) - 1 :
            monthlyApy[a].timestamp < monthlyApy[a + 1].timestamp

\* The series is one usable sample dated on the 1st of the current month
\* (at 00:00:00.000 or later that day).
SingleSampleOnFirstOfCurrentMonth ==
    /\ rawBody.hasData
    /\ Len(Series) = 1
    /\ Usable(Series[1])
    /\ LET c == CivilOf(InstantOfSample(Series[1]))
           n == CivilOf(now)
       IN  c.y = n.y /\ c.m = n.m /\ c.d = 1

\* C12: resampling a single sample dated on the 1st of the current month
\* yields exactly one entry, that sample labelled with the current month, and
\* so no entry for any of the other 11 target months.
C12_SingleSampleOnFirstOfMonth ==
    (Resampled /\ SingleSampleOnFirstOfCurrentMonth) =>
        /\ Len(monthlyApy) = 1
        /\ IsSample(monthlyApy[1], Series[1])
        /\ monthlyApy[1].month = formatMMMyyyy(now)
        /\ Qualifying(0) = {1}
        /\ \A i \in TargetMonths \ {0} : Qualifying(i) = { }

\* The resampler has run on one sample stamped at 00:00:00.000 of the 1st of
\* the current month and emitted it.
C12_Witness ==
    /\ Resampled
    /\ SingleSampleOnFirstOfCurrentMonth
    /\ Series[1].timestamp.s = startOfMonth(now).s
    /\ Len(monthlyApy) = 1

(***************************************************************************)
(* Properties of the /api/apy/[poolId] route.                              *)
(***************************************************************************)
ApyDone == apyPc = "done"

ApyFixedError == ErrorResponse(500, "Failed to fetch APY history")

\* The upstream series of the parsed body, empty when it has no data member.
UpstreamSeries == IF apyBody.hasData THEN apyBody.data ELSE << >>

ApyOutcome400 ==
    /\ apyResponse.status = 400
    /\ apyResponse.error # Null
    /\ ~apyResponse.hasData
    /\ apyRequests = << >>

\* C13 as stated: 400 and no upstream request for a missing or empty
\* identifier; the fixed 500 payload when the fetch rejects, is not OK or its
\* body cannot be parsed; otherwise 200 with the upstream series (empty when
\* the body has no data member).
C13_ThreeOutcomes ==
    ApyDone =>
        IF IsFalsyId(apyPoolId) THEN ApyOutcome400
        ELSE IF apyFetch \in {"reject", "notOk", "badJson"}
             THEN apyResponse = ApyFixedError
             ELSE /\ apyResponse.status = 200
                  /\ apyResponse.error = Null
                  /\ apyResponse.hasData
                  /\ apyResponse.data = UpstreamSeries

\* C13 amended: the fixed 500 payload also answers a body that parses to
\* null, and the 200 response carries the upstream series as JSON writes it
\* (a number that is not finite becomes null).  Every finished request has
\* exactly one of the three outcomes.
C13_ThreeOutcomesAmended ==
    ApyDone =>
        IF IsFalsyId(apyPoolId) THEN ApyOutcome400
        ELSE IF apyFetch \in {"reject", "notOk", "badJson"} \/ apyBody.isNull
             THEN apyResponse = ApyFixedError /\ Len(apyRequests) = 1
             ELSE /\ apyResponse.status = 200
                  /\ apyResponse.error = Null
                  /\ apyResponse.hasData
                  /\ Len(apyResponse.data) = Len(UpstreamSeries)
                  /\ \A j \in 1..Len(UpstreamSeries) :
                        /\ apyResponse.data[j].timestamp = UpstreamSeries[j].timestamp
                        /\ apyResponse.data[j].apy =
                              (IF UpstreamSeries[j].apy.k = "inf"
                               THEN JsNull ELSE UpstreamSeries[j].apy)

\* A request with an identifier was answered 200 with a series of two samples.
C13_Witness ==
    /\ ApyDone
    /\ ~IsFalsyId(apyPoolId)
    /\ apyFetch = "body"
    /\ Len(UpstreamSeries) = 2
    /\ apyResponse.status = 200
    /\ Len(apyResponse.data) = 2

(***************************************************************************)
(* Concurrency of the history tasks of /api/pools.                         *)
(***************************************************************************)
Tasks == 1..Len(taskPc)

Outstanding(i) == taskPc[i] # "settled"

Responded == response # NoResponse

\* The history request of every filtered pool has been issued.
AllHistoryRequested ==
    /\ Len(histRequests) = Len(filteredPools)
    /\ \A i \in 1..Len(filteredPools) : histRequests[i] = filteredPools[i].pool

\* C14: once the tasks are started the history request of every filtered
\* pool is out, whatever the state of the other tasks; any task whose fetch
\* or parse is pending can settle next, whichever tasks are still
\* outstanding; and no response exists while a task is outstanding.
C14_ConcurrentIssueJoinedResponse ==
    /\ pc = "awaitAll" =>
          /\ Len(taskPc) = Len(filteredPools)
          /\ AllHistoryRequested
          /\ \A i \in Tasks :
                /\ taskPc[i] = "fetching" => ENABLED HistoryFetchSettles(i, "ok")
                /\ taskPc[i] = "parsing" =>
                      ENABLED HistoryJsonSettles(i, "badJson", DefaultNow, NoBody)
    /\ Responded => \A i \in Tasks : ~Outstanding(i)
    /\ (\E i \in Tasks : Outstanding(i)) => ~Responded /\ pc = "awaitAll"

\* Both requests are out, the second task has settled with a value while the
\* first is still waiting for its fetch, and there is no response yet.
C14_Witness ==
    /\ pc = "awaitAll"
    /\ Len(taskPc) = 2
    /\ AllHistoryRequested
    /\ taskPc[1] = "fetching"
    /\ taskPc[2] = "settled"
    /\ results[2].apyMean30d.k = "num"
    /\ ~Responded

\* What task i observed of its own history request decides its mean: a
\* failure gives null, a parsed series its mean at the task's clock reading.
OwnMean(i) ==
    IF hist[i].k \in {"reject", "notOk", "badJson"} \/ ~hist[i].hasData
    THEN NoData
    ELSE RouteApyMean30d(hist[i].data, hist[i].now)

\* The record of task i as a function of its own listing entry and its own
\* history outcome.
OwnRecord(i) ==
    IF Outstanding(i)
    THEN ToPool(FilterTargetPools(poolsData.data)[i])
    ELSE [ToPool(FilterTargetPools(poolsData.data)[i]) EXCEPT
             !.apyMean30d = OwnMean(i)]

RecordsAreOwn ==
    /\ \A i \in Tasks : results[i] = OwnRecord(i)
    /\ response.status = 200 =>
          /\ Len(response.data) = Len(results)
          /\ \A i \in Tasks :
                response.data[i] =
                    [OwnRecord(i) EXCEPT !.apyMean30d = JsonNumber(@)]

\* A step that is not a step of task i leaves the record of task i alone.
OthersLeaveRecordAlone ==
    \A i \in Tasks :
        (hist'[i] = hist[i] /\ taskPc'[i] = taskPc[i]) => results'[i] = results[i]

\* C15: the record of each pool is determined by the pool's own listing
\* entry and the outcome of its own history request, in every state and so
\* for every completion order and every outcome of the other requests; and
\* no step of another task changes it.
C15_RecordDependsOnOwnInputsOnly ==
    []RecordsAreOwn /\ [][OthersLeaveRecordAlone]_vars

\* Two pools were answered: the first task failed, the second settled with a
\* value, and each record shows its own outcome.
C15_Witness ==
    /\ response.status = 200
    /\ Len(results) = 2
    /\ hist[1].k \in {"reject", "notOk", "badJson"}
    /\ hist[2].k = "body"
    /\ response.data[2].apyMean30d.k = "num"
    /\ response.data[1].apyMean30d = NoData

(***************************************************************************)
(* Upstream requests of the two routes.                                    *)
(***************************************************************************)
\* Number of positions of a sequence of identifiers that hold id.
Occurrences(ids, id) == Cardinality({ j \in 1..Len(ids) : ids[j] = id })

FilteredIds == [i \in 1..Len(filteredPools) |-> filteredPools[i].pool]

\* C16: one request is never retried: the pool list is requested at most
\* once, the history of a pool at most once per filtered entry of that pool
\* (exactly once per task that was started), and /api/apy issues at most one
\* upstream request, whatever the outcomes.
C16_NoRetry ==
    /\ poolsRequests <= 1
    /\ Len(histRequests) <= Len(filteredPools)
    /\ \A j \in 1..Len(histRequests) :
          Occurrences(histRequests, histRequests[j])
              = Occurrences(FilteredIds, histRequests[j])
    /\ Len(taskPc) = Len(histRequests)
    /\ Len(apyRequests) <= 1

\* /api/pools answered after the history fetch of its first pool failed and
\* that of the second was not OK: one list request and one history request
\* per pool were made.
C16_Witness ==
    /\ pc = "done"
    /\ response.status = 200
    /\ Len(filteredPools) = 2
    /\ hist[1].k = "reject"
    /\ hist[2].k = "notOk"
    /\ poolsRequests = 1
    /\ Len(histRequests) = 2

(***************************************************************************)
(* Properties of the wallet connection.                                    *)
(***************************************************************************)
Attempts == 1..Len(attempts)

Failed(a) == attempts[a].promise = "rejected"

Finished(a) == attempts[a].promise # "pending"

\* C17: every failed attempt shows exactly one alert, and its message follows
\* the cause: the timeout message after the timer, the user-rejection
\* message for a rejection with code 4001, the pending-request message for
\* code -32002; a chain switch rejected with code 4902 goes on to the
\* add-network request; the generic message only when none of these applies.
C17_OneAlertClassifiedByCode ==
    \A a \in Attempts :
        /\ attempts[a].switchCode = 4902 =>
              \/ attempts[a].pc = "awaitAdd"
              \/ attempts[a].promise = "fulfilled"
              \/ attempts[a].alerts = << Msg.addFailed >>
        /\ Failed(a) =>
              /\ Len(attempts[a].alerts) = 1
              /\ attempts[a].timedOut => attempts[a].alerts[1] = Msg.timeout
              /\ attempts[a].error.code = 4001 =>
                    attempts[a].alerts[1] = Msg.rejected
              /\ attempts[a].error.code = -32002 =>
                    attempts[a].alerts[1] = Msg.pending
              /\ attempts[a].alerts[1] = Msg.generic =>
                    /\ ~attempts[a].timedOut
                    /\ attempts[a].error.code \notin {4001, -32002}

\* The promise a connectWallet call returned: that of the stored or of the
\* new attempt, or one already resolved.
ReturnedRejected(c) == calls[c] # NoPromise /\ Failed(calls[c])

\* C18: no failure escapes the operation in which it arises: a route handler
\* answers every failure with an error response, a history task with a null
\* mean, and the promise connectWallet returns is never rejected.
C18_NoFailureEscapes ==
    /\ pc = "done" => response.status \in {200, 500}
    /\ apyPc = "done" => apyResponse.status \in {200, 400, 500}
    /\ \A i \in Tasks : ~Outstanding(i) /\ HistoryFailed(i) =>
          results[i].apyMean30d = NoData
    /\ \A a \in Attempts : ~Failed(a)
    /\ \A c \in 1..Len(calls) : ~ReturnedRejected(c)

\* What holds of an attempt the timer has ended.
TimedOutAttemptFailed ==
    \A a \in Attempts :
        attempts[a].timedOut =>
            /\ attempts[a].pc = "done"
            /\ attempts[a].promise = "rejected"
            /\ attempts[a].error = NewError(Msg.timeout)
            /\ attempts[a].alerts = << Msg.timeout >>
            /\ attempts[a].accounts = << >>

\* The steps of the timer and of an answer that comes after it.
TimeoutStep ==
    \A a \in Attempts :
        /\ (attempts[a].timer = "armed" /\ attempts'[a].timer = "fired"
              /\ ~attempts[a].answered) =>
                 /\ attempts'[a].timedOut
                 /\ isConnecting' = FALSE
                 /\ isWalletConnected' = isWalletConnected
                 /\ account' = account
        /\ (attempts[a].timedOut /\ ~attempts[a].answered
              /\ attempts'[a].answered) =>
                 /\ attempts'[a].promise = "rejected"
                 /\ attempts'[a].accounts = << >>
                 /\ UNCHANGED << isWalletConnected, account, isConnecting,
                                 connectionPromise >>

\* C19: the account request is raced against the timer: when the timer fires
\* before the provider has answered, the attempt fails with the timeout
\* error, isConnecting becomes false and the attempt leaves the wallet as it
\* was (disconnected); an answer that comes later changes nothing; so no
\* attempt waits for its accounts forever.
C19_TimeoutEndsUnansweredAttempt ==
    /\ []TimedOutAttemptFailed
    /\ [][TimeoutStep]_vars
    /\ \A a \in 1..MaxCalls :
          []<>(a \in Attempts => attempts[a].pc # "awaitAccounts")

\* An attempt was ended by its timer, the provider answered afterwards, and
\* the wallet is disconnected and not connecting.
C19_Witness ==
    \E a \in Attempts :
        /\ attempts[a].timedOut
        /\ attempts[a].lateAnswer
        /\ ~isWalletConnected
        /\ account = Null
        /\ ~isConnecting

\* A connectWallet call made while disconnected returns the promise of an
\* attempt that is new or still in flight.
CallWhileDisconnectedIsFresh ==
    (Len(calls') = Len(calls) + 1 /\ ~isWalletConnected) =>
        /\ calls'[Len(calls')] # NoPromise
        /\ \/ calls'[Len(calls')] = Len(attempts) + 1
           \/ ~Finished(calls'[Len(calls')])

\* C20: when an attempt has finished, by success or by any failure, also one
\* raised before the first await, the stored promise is not that attempt's;
\* so a later call made while disconnected starts a fresh attempt.
C20_FinishedAttemptNotStored ==
    /\ [](\A a \in Attempts : Finished(a) => connectionPromise # a)
    /\ [][CallWhileDisconnectedIsFresh]_vars

\* Attempt a has sent eth_requestAccounts and the provider has not answered it.
RequestOutstanding(a) == attempts[a].timer # "none" /\ ~attempts[a].answered

\* The async body of attempt a has not run to its end.
InFlight(a) == attempts[a].pc # "done"

\* A connectWallet call made while an attempt is in flight returns the promise
\* of an attempt in flight and starts no attempt.
CallInFlightReturnsExisting ==
    (Len(calls') = Len(calls) + 1 /\ \E a \in Attempts : InFlight(a)) =>
        /\ attempts' = attempts
        /\ calls'[Len(calls')] \in { a \in Attempts : InFlight(a) }

\* C21: while an attempt is in flight every further connectWallet call returns
\* that attempt's promise and sends no eth_requestAccounts request; at most
\* one eth_requestAccounts request of connectWallet is outstanding at a time.
C21_SingleOutstandingRequest ==
    /\ [](Cardinality({ a \in Attempts : RequestOutstanding(a) }) <= 1)
    /\ [][CallInFlightReturnsExisting]_vars

\* While one attempt only has been started, its promise is stored from its
\* start to its finally block, so it is in flight with no promise stored
\* exactly when the wallet state was reset during its flight.  A step in
\* which it then completes leaves isWalletConnected and account as they are.
ClearedAttemptConnectsNothing ==
    (/\ Len(attempts) = 1
     /\ InFlight(1)
     /\ connectionPromise = NoPromise
     /\ attempts'[1].pc = "done") =>
        /\ isWalletConnected' = isWalletConnected
        /\ account' = account

\* C22: disconnectWallet, the 'disconnect' event and an accountsChanged event
\* with an empty list clear a pending connection: an attempt in flight at that
\* moment, when it completes later, does not connect the wallet or set an
\* account.
C22_ResetCancelsPendingAttempt == [][ClearedAttemptConnectsNothing]_vars

\* An accountsChanged step: the listener ran on a payload.  A list of
\* addresses that is not empty sets account to its first element; any other
\* payload (an empty list, a list of something else, no list) resets both
\* fields.
AccountsChangedSetsOrResets ==
    \A payload \in EventPayloads :
        HandleAccountsChanged(payload) =>
            IF /\ payload.isArray
               /\ Len(payload.items) > 0
               /\ \A i \in 1..Len(payload.items) : payload.items[i] # Null
            THEN account' = payload.items[1] /\ isWalletConnected'
            ELSE account' = Null /\ ~isWalletConnected'

\* C23: in every reachable state isWalletConnected is true exactly when
\* account is not null; an accountsChanged event with a non-empty list sets
\* account to the list's first element, and one with an empty or malformed
\* list resets both fields.
C23_ConnectedIffAccount ==
    /\ [](isWalletConnected <=> account # Null)
    /\ [][AccountsChangedSetsOrResets]_vars

\* Attempt a saw a chain other than mainnet and neither its switch request
\* nor, after a rejection with code 4902, its add request succeeded.
SwitchToMainnetFailed(a) ==
    /\ attempts[a].chainId \notin {0, 1}
    /\ attempts[a].switch = "failed"
    /\ attempts[a].switchCode = 4902 => attempts[a].add = "failed"

\* An attempt that completed, and so marked the wallet connected, saw chain
\* id 1 or had its switch or add request succeed; one whose switch to
\* mainnet failed was rejected.
ConnectedOnMainnetOnly ==
    \A a \in Attempts :
        /\ attempts[a].promise = "fulfilled" =>
              \/ attempts[a].chainId = 1
              \/ attempts[a].switch = "ok"
              \/ attempts[a].switchCode = 4902 /\ attempts[a].add = "ok"
        /\ SwitchToMainnetFailed(a) => Failed(a)

\* A step of attempt a changes isWalletConnected or account only by
\* completing the attempt; the step in which its switch to mainnet fails
\* changes neither.
OnlyCompletionConnects ==
    \A a \in Attempts :
        attempts'[a] # attempts[a] =>
            IF attempts[a].promise = "pending" /\ attempts'[a].promise = "fulfilled"
            THEN isWalletConnected' /\ account' = attempts'[a].accounts[1]
            ELSE UNCHANGED << isWalletConnected, account >>

\* C24: connectWallet marks the wallet connected only when the provider's
\* chain is Ethereum mainnet (chain id 1) or a switch request, or after error
\* 4902 an add request, has succeeded; when the chain is not mainnet and the
\* switch fails, the attempt ends and leaves isWalletConnected and account
\* unchanged.
C24_ConnectedOnMainnetOnly ==
    []ConnectedOnMainnetOnly /\ [][OnlyCompletionConnects]_vars

\* One attempt ended on a failed switch with the wallet left disconnected; a
\* later one, on another chain too, added mainnet after error 4902 and
\* connected the wallet.
C24_Witness ==
    /\ Len(attempts) = 2
    /\ SwitchToMainnetFailed(1)
    /\ attempts[1].switchCode = 4001
    /\ attempts[2].promise = "fulfilled"
    /\ attempts[2].chainId = 137
    /\ attempts[2].add = "ok"
    /\ isWalletConnected
    /\ account = AddrA


(***************************************************************************)
(* Properties of the pools table.                                          *)
(***************************************************************************)
\* The call of fetchPools failed: the fetch was rejected, the response was
\* not OK, its body did not parse, or the body carries an error member.
TableLoadFailed ==
    \/ tableResult.kind \in { "rejected", "notOk", "badJson" }
    \/ tableResult.kind = "body" /\ tableResult.error # Null

\* C25: once fetchPools has settled, isLoading is false; after a failure the
\* error is the fixed message and pools is empty; after a success the error is
\* null and pools is the list returned; and whenever isLoading is false and the
\* error is set, pools is empty.
C25_TableLoadOutcome ==
    /\ tablePc = "done" =>
          /\ tableLoading = FALSE
          /\ IF TableLoadFailed
             THEN tableError = TableFailure /\ tablePools = << >>
             ELSE tableError = Null /\ tablePools = tableResult.data
    /\ (~tableLoading /\ tableError # Null) => tablePools = << >>

\* A body with both a data list and an error member was received.
C25_Witness ==
    /\ tablePc = "done"
    /\ tableResult.kind = "body"
    /\ tableResult.error # Null
    /\ Len(tableResult.data) > 0
    /\ tableError = TableFailure
    /\ tablePools = << >>
    /\ ~tableLoading


\* The lock and the link every rendered row must have for the wallet state w.
RowsFollowWallet(rows, w) ==
    \A i \in 1..Len(rows) :
       /\ rows[i].isLocked <=> (rows[i].pool.category = "Yield Aggregator" /\ ~w)
       /\ rows[i].href = IF rows[i].pool.category = "Yield Aggregator" /\ ~w
                         THEN << "#" >>
                         ELSE << "/pools/", rows[i].pool.pool >>

\* A step that connects leaves no row locked; a step that disconnects leaves
\* every Yield Aggregator row locked.
WalletChangeRelocks ==
    /\ (~isWalletConnected /\ isWalletConnected') =>
          \A i \in 1..Len(Rows') : ~Rows'[i].isLocked
    /\ (isWalletConnected /\ ~isWalletConnected') =>
          \A i \in 1..Len(Rows') :
             Rows'[i].pool.category = "Yield Aggregator" => Rows'[i].isLocked

\* C26: a row is locked exactly when its category is Yield Aggregator and the
\* wallet is not connected; a locked row links to "#", an unlocked one to
\* /pools/{poolId}; connecting unlocks every row, disconnecting locks the
\* Yield Aggregator rows again.
C26_RowLockFollowsWallet ==
    /\ [](RowsFollowWallet(Rows, isWalletConnected))
    /\ [][WalletChangeRelocks]_vars

\* A Lending row and a Yield Aggregator row shown without a wallet: the
\* second is locked and links to "#".
C26_Witness ==
    /\ ~isWalletConnected
    /\ Len(Rows) = 2
    /\ Rows[1].pool.category = "Lending" /\ ~Rows[1].isLocked
    /\ Rows[1].href = << "/pools/", IdAaveV3 >>
    /\ Rows[2].pool.category = "Yield Aggregator" /\ Rows[2].isLocked
    /\ Rows[2].href = << "#" >>


(***************************************************************************)
(* Properties of the pool-details page.                                    *)
(***************************************************************************)
\* Run r stores the pool it selected in this step.
SelectsPool(r) ==
    /\ r \in Runs
    /\ runs[r].pc = "awaitPools"
    /\ runs'[r].pc = "awaitApy"

\* Run r stores its computed mean and series in this step.
StoresHistory(r) ==
    /\ r \in Runs
    /\ runs[r].pc = "awaitApy"
    /\ runs'[r].pc = "done"
    /\ runs'[r].error = Null

\* With one run only, settled without an error: the mean shown.
SuppliedMeanShown ==
    (Len(runs) = 1 /\ runs[1].pc = "done" /\ runs[1].error = Null) =>
        detailsPool.apyMean30d =
            IF runs[1].selected.apyMean30d # NoData
            THEN runs[1].selected.apyMean30d
            ELSE runs[1].computed

\* Steps of the mean shown: a run selecting its pool shows the supplied
\* value; a supplied value is kept by every other step; a run storing its
\* history fills in its computed mean where the pool shown has none.
MeanStep ==
    /\ \A r \in 1..MaxRuns : SelectsPool(r) => detailsPool' = runs'[r].selected
    /\ ((\A r \in 1..MaxRuns : ~SelectsPool(r)) /\ detailsPool.apyMean30d # NoData) =>
          detailsPool' = detailsPool
    /\ \A r \in 1..MaxRuns :
          (StoresHistory(r) /\ detailsPool # NoPool /\ detailsPool.apyMean30d = NoData) =>
              detailsPool' = [detailsPool EXCEPT !.apyMean30d = runs'[r].computed]

\* C27: the 30-day mean shown is the one supplied by /api/pools whenever that
\* is non-null; the computed mean is used only when the supplied one is null,
\* and computing it never overwrites a supplied value.
C27_SuppliedMeanKept == []SuppliedMeanShown /\ [][MeanStep]_vars

\* One run settled for a pool supplied with a mean of 5 while the history
\* gave another mean: 5 is shown.
C27_Witness ==
    /\ Len(runs) = 1
    /\ runs[1].pc = "done"
    /\ runs[1].error = Null
    /\ runs[1].selected.apyMean30d = Quotient("num", 5, 1)
    /\ runs[1].computed \notin { NoData, Quotient("num", 5, 1) }
    /\ detailsPool.apyMean30d = Quotient("num", 5, 1)


AllRunsSettled == \A r \in Runs : runs[r].pc = "done"

\* What the effect for the current poolId shows by itself: the invalid-id
\* error, or the outcome of the latest run.
ExpectedView ==
    IF detailsPoolId = Null THEN View(FALSE, InvalidPoolId, NoPool, << >>)
    ELSE LET latest == runs[Len(runs)]
         IN  View(FALSE, latest.error,
                  [latest.selected EXCEPT
                      !.apyMean30d = IF @ # NoData THEN @ ELSE latest.computed],
                  latest.monthly)

\* C28: when poolId changed while an earlier run was in flight, then once all
\* runs have settled the pool, the history and the error displayed are those
\* of the current poolId, under any completion order.
C28_LatestRunWins ==
    (Len(runs) >= 2 /\ AllRunsSettled) => Displayed = ExpectedView


(***************************************************************************)
(* Order of the pools in the response of /api/pools.                       *)
(***************************************************************************)
PoolIdsOf(list) == [i \in 1..Len(list) |-> list[i].pool]

\* The identifiers of the allow-listed upstream entries, in upstream order.
AllowListedUpstreamIds ==
    PoolIdsOf(SelectSeq(poolsData.data, LAMBDA entry : entry.pool \in AllowList))

\* C29: the pools of a successful response are in the order of the
\* allow-listed entries of the upstream list, one per entry, whatever the
\* order in which the history tasks settle: the values collected keep that
\* order while tasks are outstanding and in the response.
C29_ResponseKeepsUpstreamOrder ==
    /\ pc = "awaitAll" => PoolIdsOf(results) = AllowListedUpstreamIds
    /\ (pc = "done" /\ response.status = 200) =>
          PoolIdsOf(response.data) = AllowListedUpstreamIds

\* The second task has settled before the first; the upstream list holds
\* two allow-listed pools in the reverse of their allow-list order.
C29_Witness ==
    /\ pc = "awaitAll"
    /\ taskPc = << "fetching", "settled" >>
    /\ PoolIdsOf(poolsData.data) = << IdLido, IdAaveV3 >>
    /\ PoolIdsOf(results) = << IdLido, IdAaveV3 >>
    /\ results[2].apyMean30d # NoData


(***************************************************************************)
(* Properties of the sidebar width.                                        *)
(***************************************************************************)
\* The width rendered, by screen size and collapse.
WidthInRange ==
    shellPc \in { "rendered", "mounted" } =>
        IF ~mediaMatches THEN Width >= 220 /\ Width <= 280
        ELSE IF collapsed THEN Width = 72
        ELSE Width >= 200 /\ Width <= 420

\* While the sidebar is collapsed and no drag is under way, no step of the
\* mounted shell starts a drag or changes the width, in state or in storage.
CollapsedDragInert ==
    (shellPc = "mounted" /\ shellPc' = "mounted" /\ CollapsedProp /\ ~drag.active) =>
        /\ ~drag'.active
        /\ sidebarWidth' = sidebarWidth
        /\ savedWidth' = savedWidth

\* C30: after any sequence of mounts (with the stored width restored), drags,
\* collapse toggles and screen-size changes the width rendered is 72 when
\* collapsed on a large screen, within [200, 420] when expanded on a large
\* screen and within [220, 280] on a small screen; a drag started while
\* collapsed changes nothing.
C30_SidebarWidthBounded == []WidthInRange /\ [][CollapsedDragInert]_vars

\* On a large screen, expanded: a drag from 380 has reached the upper limit.
C30_Witness ==
    /\ shellPc = "mounted"
    /\ mediaMatches /\ isLg /\ ~collapsed
    /\ drag.active /\ drag.startWidth = 380
    /\ sidebarWidth = 420
    /\ Width = 420
    /\ savedWidth = Item(<< "4", "2", "0" >>)

=============================================================================
